---- MODULE Spec2Model ----
(***************************************************************************)
(* Model of the auto-route library of grinder-maker (lib/auto-route):      *)
(* the uniform-grid spatial index, computeNeighborCounts,                  *)
(* segmentAvoidsDense, generateAutoRoute and tuneAutoRouteParams.          *)
(*                                                                         *)
(* Numbers.  World coordinates and radii are integers, so squared          *)
(* distances, Math.floor(value / cellSize) and the radius comparisons are  *)
(* computed exactly.  settings.maxWaypoints is given in units of           *)
(* 1/WaypointScale so that Math.floor acts on non-integers.                *)
(***************************************************************************)
EXTENDS Integers, Sequences, FiniteSets, TLC

VARIABLES
  pc,          \* position in the function being run
  points,      \* argument points: SpawnXYZ[]
  denseIds,    \* generateAutoRoute: argument denseIds: Set<number>
  settings,    \* generateAutoRoute: argument settings: AutoRouteSettings
  env,         \* generateAutoRoute: the locals of lines 364-444 (closure of buildGreedyPath)
  walk,        \* generateAutoRoute: index into startCandidates of the greedy walk being run
  route,       \* buildGreedyPath: route
  visited,     \* buildGreedyPath: visited
  bestRoute,   \* generateAutoRoute: bestRoute
  bestCost,    \* generateAutoRoute: bestCost
  result,      \* the value returned
  ncRadius,    \* computeNeighborCounts: argument radius
  ncIndex,     \* computeNeighborCounts: index
  ncCursor,    \* computeNeighborCounts: position of the for loop in points
  ncCounts,    \* computeNeighborCounts: counts
  tnArgs,      \* tuneAutoRouteParams: arguments center and maxWaypoints
  tn,          \* tuneAutoRouteParams: the locals of lines 196-228
  tnLoop,      \* tuneAutoRouteParams: the locals of the cluster radius in hand (lines 234-264)
  tnCluster,   \* tuneAutoRouteParams: position in clusterCandidates
  tnStep,      \* tuneAutoRouteParams: position in stepCandidates
  tnBest,      \* tuneAutoRouteParams: best
  tnTrials,    \* tuneAutoRouteParams: calls of generateAutoRoute made so far
  crCount,     \* createAutoRoute: densityInfo.points.length; the point at index i stands as i
  crStride,    \* createAutoRoute: stride
  crIndex,     \* createAutoRoute: index of the sampling loop
  crSampled,   \* createAutoRoute: sampled
  crTunePoints, \* createAutoRoute: tunePoints, as handed to tuneAutoRouteParams
  gItems,      \* buildSpatialIndex: items
  gCellSize,   \* buildSpatialIndex: cellSize
  gIndex,      \* the SpatialIndex built, or null
  gArgs,       \* queryPointsWithin, segmentAvoidsDense: the arguments of the call
  gFound,      \* queryPointsWithin: the list returned
  gClear,      \* segmentAvoidsDense: the value returned
  dfCursor,    \* tuneAutoRouteParams, lines 200-218: position of the loop in hand in points
  dfSorted,    \* tuneAutoRouteParams: the array of lines 201-203 while it is sorted
  dfLocals,    \* tuneAutoRouteParams: cappedWaypoints, localCount, baseSpacing, dirtySupportRadius
  dfIndex,     \* computeNeighborCounts called at line 211: index
  dfCounts,    \* tuneAutoRouteParams: dirtyCounts
  dfDirtyIds,  \* tuneAutoRouteParams: dirtyIds
  dfBasePoints, \* tuneAutoRouteParams: basePoints
  tlMap,       \* buildMap: width and height of the input image
  tlConcurrency, \* CONCURRENCY
  tlMaxZoom,   \* buildMap: maxZoom
  tlZ,         \* buildMap: z of the loop of line 76
  tlTotalTiles, \* buildMap: totalTiles
  tlGeneratedTiles, \* buildMap: generatedTiles
  tlLevelDone, \* buildMap: levelDone
  tlLevelTotal, \* buildMap: levelTotal
  tlTasks,     \* buildMap, runWithConcurrency: tasks, each task named by its tile <<x, y>>
  tlWorkers,   \* runWithConcurrency: workers, each with its position and the task it awaits
  tlStarted    \* the calls task() made at line 41 in this level, in order

routeVars == <<denseIds, settings, env, walk, route, visited, bestRoute, bestCost>>
countVars == <<ncRadius, ncIndex, ncCursor, ncCounts>>

tuneVars == <<tnArgs, tn, tnLoop, tnCluster, tnStep, tnBest, tnTrials>>

sampleVars == <<crCount, crStride, crIndex, crSampled, crTunePoints>>

gridVars == <<gItems, gCellSize, gIndex, gArgs, gFound, gClear>>

dirtyVars == <<dfCursor, dfSorted, dfLocals, dfIndex, dfCounts, dfDirtyIds, dfBasePoints>>

tileVars == <<tlMap, tlConcurrency, tlMaxZoom, tlZ, tlTotalTiles, tlGeneratedTiles,
              tlLevelDone, tlLevelTotal, tlTasks, tlWorkers, tlStarted>>

vars == <<pc, points, result, routeVars, countVars, tuneVars, sampleVars, gridVars,
          dirtyVars, tileVars>>

----------------------------------------------------------------------------
(* Bounds of the model *)

MaxPoints == 2
MaxStagePoints == 4
WaypointScale == 2

(* Infinity of the source: larger than every squared distance of the model *)
Infinity == 1000000000

Max(a, b) == IF a >= b THEN a ELSE b
Min(a, b) == IF a <= b THEN a ELSE b
Abs(a) == IF a >= 0 THEN a ELSE -a

(* Math.floor of a number given in units of 1/WaypointScale *)
Floor(v) == v \div WaypointScale

(* Math.ceil(n / d) for d > 0 *)
Ceil(n, d) == -((-n) \div d)

----------------------------------------------------------------------------
(* Map<number, number> as a function over its keys *)

EmptyMap == [k \in {} |-> 0]
MapSet(m, k, v) == [x \in (DOMAIN m) \cup {k} |-> IF x = k THEN v ELSE m[x]]
MapGetOr(m, k, default) == IF k \in DOMAIN m THEN m[k] ELSE default

IdsOf(items) == { items[i].id : i \in DOMAIN items }

----------------------------------------------------------------------------
(* Geometry and the spatial index *)

cellKey(cx, cy) == <<cx, cy>>

(* cellSize is the rational n/d *)
toCell(value, cellSize) == (value * cellSize.d) \div cellSize.n

(* mutant: the height enters the distance between two points that have one *)
dist2_WithZ(a, b) ==
  LET dx == a.x - b.x
      dy == a.y - b.y
      dz == IF "z" \in DOMAIN a /\ "z" \in DOMAIN b THEN a.z - b.z ELSE 0
  IN dx * dx + dy * dy + dz * dz

dist2(a, b) ==
  LET dx == a.x - b.x
      dy == a.y - b.y
  IN dx * dx + dy * dy

RECURSIVE routeCost(_)
routeCost(r) ==
  IF Len(r) < 2 THEN 0 ELSE dist2(r[1], r[2]) + routeCost(Tail(r))

(* Math.max(1e-6, cellSize) for an integer cellSize, as a rational *)
safeCellSize(cellSize) ==
  IF cellSize >= 1 THEN [n |-> cellSize, d |-> 1] ELSE [n |-> 1, d |-> 1000000]

buildSpatialIndex(items, cellSize) ==
  LET safe == safeCellSize(cellSize)
      keyOf(item) == cellKey(toCell(item.x, safe), toCell(item.y, safe))
      keys == { keyOf(items[i]) : i \in DOMAIN items }
  IN [cellSize |-> safe,
      cells |-> [k \in keys |-> SelectSeq(items, LAMBDA it : keyOf(it) = k)]]

(* The order in which "for dy ... for dx ..." meets the cells of S *)
RECURSIVE ScanOrder(_)
ScanOrder(S) ==
  IF S = {} THEN <<>>
  ELSE LET k == CHOOSE c \in S :
                  \A o \in S : c[2] < o[2] \/ (c[2] = o[2] /\ c[1] <= o[1])
       IN <<k>> \o ScanOrder(S \ {k})

RECURSIVE ConcatBuckets(_, _, _, _)
ConcatBuckets(index, keys, center, r2) ==
  IF keys = <<>> THEN <<>>
  ELSE SelectSeq(index.cells[Head(keys)], LAMBDA p : dist2(p, center) <= r2)
         \o ConcatBuckets(index, Tail(keys), center, r2)

(* The two nested loops over the cells cx-range..cx+range, cy-range..cy+range
   with the distance test: lines 60-70 and 111-121 *)
ScanWithin(index, center, r2, range) ==
  LET cx == toCell(center.x, index.cellSize)
      cy == toCell(center.y, index.cellSize)
      near == { k \in DOMAIN index.cells :
                  Abs(k[1] - cx) <= range /\ Abs(k[2] - cy) <= range }
  IN ConcatBuckets(index, ScanOrder(near), center, r2)

(* mutant: the number of rings of cells is rounded down *)
queryPointsWithin_FloorRange(index, center, radius) ==
  IF ~(radius > 0) THEN <<>>
  ELSE IF DOMAIN index.cells = {} THEN <<>>
  ELSE ScanWithin(index, center, radius * radius,
                  (radius * index.cellSize.d) \div index.cellSize.n)

(* lines 49-73 *)
queryPointsWithin(index, center, radius) ==
  IF ~(radius > 0) THEN <<>>
  ELSE IF DOMAIN index.cells = {} THEN <<>>
  ELSE ScanWithin(index, center, radius * radius,
                  Ceil(radius * index.cellSize.d, index.cellSize.n))

(* The squared distance from p to the segment a-b, as the rational n/d *)
dist2PointToSegment(p, a, b) ==
  LET abx == b.x - a.x
      aby == b.y - a.y
      apx == p.x - a.x
      apy == p.y - a.y
      abLen2 == abx * abx + aby * aby
      dot == apx * abx + apy * aby
  IN IF abLen2 = 0 THEN [n |-> apx * apx + apy * apy, d |-> 1]
     ELSE IF dot <= 0 THEN [n |-> apx * apx + apy * apy, d |-> 1]
     ELSE IF dot >= abLen2 THEN [n |-> dist2(p, b), d |-> 1]
     ELSE [n |-> (apx * apx + apy * apy) * abLen2 - dot * dot, d |-> abLen2]

(* null of the source *)
Null == [null |-> TRUE]

(* the variables of lines 200-218 of the tuner while another function runs *)
IdleDirty ==
  /\ dfCursor = 0
  /\ dfSorted = <<>>
  /\ dfLocals = Null
  /\ dfIndex = Null
  /\ dfCounts = EmptyMap
  /\ dfDirtyIds = {}
  /\ dfBasePoints = <<>>

(* the variables of the tile script while the library runs *)
IdleTiles ==
  /\ tlMap = Null
  /\ tlConcurrency = 0
  /\ tlMaxZoom = 0
  /\ tlZ = 0
  /\ tlTotalTiles = 0
  /\ tlGeneratedTiles = 0
  /\ tlLevelDone = 0
  /\ tlLevelTotal = 0
  /\ tlTasks = <<>>
  /\ tlWorkers = <<>>
  /\ tlStarted = <<>>

(* mutant: the cells scanned are those of the segment's box as it is *)
segmentAvoidsDense_TightBox(a, b, denseIndex, avoidRadius) ==
  IF denseIndex = Null THEN TRUE
  ELSE IF ~(avoidRadius > 0) THEN TRUE
  ELSE IF DOMAIN denseIndex.cells = {} THEN TRUE
  ELSE
    LET minCx == toCell(Min(a.x, b.x), denseIndex.cellSize)
        maxCx == toCell(Max(a.x, b.x), denseIndex.cellSize)
        minCy == toCell(Min(a.y, b.y), denseIndex.cellSize)
        maxCy == toCell(Max(a.y, b.y), denseIndex.cellSize)
        r2 == avoidRadius * avoidRadius
        scanned == { k \in DOMAIN denseIndex.cells :
                       /\ minCx <= k[1] /\ k[1] <= maxCx
                       /\ minCy <= k[2] /\ k[2] <= maxCy }
    IN \A k \in scanned :
         \A i \in DOMAIN denseIndex.cells[k] :
           LET d2 == dist2PointToSegment(denseIndex.cells[k][i], a, b)
           IN ~(d2.n <= r2 * d2.d)

(* lines 323-357 *)
segmentAvoidsDense(a, b, denseIndex, avoidRadius) ==
  IF denseIndex = Null THEN TRUE
  ELSE IF ~(avoidRadius > 0) THEN TRUE
  ELSE IF DOMAIN denseIndex.cells = {} THEN TRUE
  ELSE
    LET minCx == toCell(Min(a.x, b.x) - avoidRadius, denseIndex.cellSize)
        maxCx == toCell(Max(a.x, b.x) + avoidRadius, denseIndex.cellSize)
        minCy == toCell(Min(a.y, b.y) - avoidRadius, denseIndex.cellSize)
        maxCy == toCell(Max(a.y, b.y) + avoidRadius, denseIndex.cellSize)
        r2 == avoidRadius * avoidRadius
        scanned == { k \in DOMAIN denseIndex.cells :
                       /\ minCx <= k[1] /\ k[1] <= maxCx
                       /\ minCy <= k[2] /\ k[2] <= maxCy }
    IN \A k \in scanned :
         \A i \in DOMAIN denseIndex.cells[k] :
           LET d2 == dist2PointToSegment(denseIndex.cells[k][i], a, b)
           IN ~(d2.n <= r2 * d2.d)

----------------------------------------------------------------------------
(* computeNeighborCounts *)

(* mutant: the point itself is not counted *)
countAround_NoSelf(index, point, radius) ==
  Len(ScanWithin(index, point, radius * radius,
                 Ceil(radius * index.cellSize.d, index.cellSize.n))) - 1

(* lines 107-121: the count of one point *)
countAround(index, point, radius) ==
  Len(ScanWithin(index, point, radius * radius,
                 Ceil(radius * index.cellSize.d, index.cellSize.n)))

(* mutant: only the point's own cell is scanned *)
countStep_OwnCell(counts, index, point, radius) ==
  MapSet(counts, point.id, Len(ScanWithin(index, point, radius * radius, 0)))

(* lines 106-122: one iteration of the for loop *)
countStep(counts, index, point, radius) ==
  MapSet(counts, point.id, countAround(index, point, radius))

RECURSIVE CountLoop(_, _, _, _, _)
CountLoop(pts, index, radius, i, counts) ==
  IF i > Len(pts) THEN counts
  ELSE CountLoop(pts, index, radius, i + 1, countStep(counts, index, pts[i], radius))

(* mutant: a radius of 0 or less counts nothing *)
onesStep_Zero(counts, point) == MapSet(counts, point.id, 0)

(* line 98: one iteration of the for loop *)
onesStep(counts, point) == MapSet(counts, point.id, 1)

RECURSIVE SetAllOne(_, _, _)
SetAllOne(pts, i, counts) ==
  IF i > Len(pts) THEN counts
  ELSE SetAllOne(pts, i + 1, onesStep(counts, pts[i]))

computeNeighborCounts(pts, radius) ==
  IF Len(pts) = 0 THEN EmptyMap
  ELSE IF ~(radius > 0) THEN SetAllOne(pts, 1, EmptyMap)
  ELSE CountLoop(pts, buildSpatialIndex(pts, radius), radius, 1, EmptyMap)

----------------------------------------------------------------------------
(* The argument array after a call has filtered, mapped and sorted *)

(* mutant: the working array is written back to the argument *)
argumentAfter_InPlace(pts, working) == working

(* lines 201-205, 373-375 and 425-435: filter and map allocate the array that
   is filled and sorted, here working; the argument keeps its elements and
   their order *)
argumentAfter(pts, working) == pts

----------------------------------------------------------------------------
(* generateAutoRoute: the locals of lines 364-444 *)

(* mutant: Math.ceil for Math.floor *)
cappedMaxWaypoints_Ceil(st) ==
  LET safeMax == Max(0, Ceil(st.maxWaypoints, WaypointScale))
  IN IF safeMax > 0 THEN safeMax ELSE 0

(* mutant: a waypoint budget of at least one *)
cappedMaxWaypoints_AtLeastOne(st) == Max(1, Floor(st.maxWaypoints))

cappedMaxWaypoints(st) ==
  LET safeMax == Max(0, Floor(st.maxWaypoints))
  IN IF safeMax > 0 THEN safeMax ELSE 0

(* mutant: the radius is squared whatever its sign *)
maxAreaR2_Squared(st) == st.maxAreaRadius * st.maxAreaRadius

maxAreaR2(st) ==
  IF st.maxAreaRadius > 0 THEN st.maxAreaRadius * st.maxAreaRadius ELSE Infinity

inArea(pts, st) ==
  SelectSeq(pts, LAMBDA p : dist2(st.center, p) <= maxAreaR2(st))

(* mutant: the dense points are counted wherever they lie *)
denseInArea_Anywhere(pts, dIds, st) ==
  SelectSeq(pts, LAMBDA p : p.id \in dIds)

denseInArea(pts, dIds, st) ==
  SelectSeq(inArea(pts, st), LAMBDA p : p.id \in dIds)

(* mutant: the dense points are not taken out *)
safeInArea_KeepDense(pts, dIds, st) == inArea(pts, st)

safeInArea(pts, dIds, st) ==
  SelectSeq(inArea(pts, st), LAMBDA p : ~(p.id \in dIds))

(* mutant: the dense points kept for travel are those of the area only *)
travelR2_AreaOnly(st) ==
  IF st.maxAreaRadius > 0 /\ st.avoidDenseTravelRadius > 0
  THEN st.maxAreaRadius * st.maxAreaRadius
  ELSE Infinity

travelR2(st) ==
  IF st.maxAreaRadius > 0 /\ st.avoidDenseTravelRadius > 0
  THEN (st.maxAreaRadius + st.avoidDenseTravelRadius)
         * (st.maxAreaRadius + st.avoidDenseTravelRadius)
  ELSE Infinity

denseForTravel(pts, dIds, st) ==
  IF st.avoidDenseTravelRadius > 0
  THEN SelectSeq(pts, LAMBDA p : p.id \in dIds /\ dist2(st.center, p) <= travelR2(st))
  ELSE <<>>

denseIndexOf(pts, dIds, st) ==
  IF st.avoidDenseTravelRadius > 0 /\ Len(denseForTravel(pts, dIds, st)) > 0
  THEN buildSpatialIndex(denseForTravel(pts, dIds, st), st.avoidDenseTravelRadius)
  ELSE Null

(* mutant: the step is never bounded *)
maxStep2Of_Unbounded(st) == Infinity

(* mutant: a step distance of 0 or less is squared like any other *)
maxStep2Of_Squared(st) == st.maxStepDistance * st.maxStepDistance

(* line 405 *)
maxStep2Of(st) ==
  IF st.maxStepDistance > 0 THEN st.maxStepDistance * st.maxStepDistance ELSE Infinity

safeIndexOf(safe, st) ==
  IF st.maxStepDistance > 0 THEN buildSpatialIndex(safe, st.maxStepDistance) ELSE Null

stepNeighborCountsOf(safe, st) ==
  IF st.maxStepDistance > 0 THEN computeNeighborCounts(safe, st.maxStepDistance)
  ELSE EmptyMap

(* lines 412-423: the first safe point of least squared distance to the center *)
RECURSIVE ClosestLoop(_, _, _, _, _)
ClosestLoop(safe, center, i, best, bestD2) ==
  IF i > Len(safe) THEN best
  ELSE LET d2 == dist2(center, safe[i])
       IN IF d2 < bestD2 THEN ClosestLoop(safe, center, i + 1, safe[i], d2)
          ELSE ClosestLoop(safe, center, i + 1, best, bestD2)

closestToCenter(safe, center) == ClosestLoop(safe, center, 1, Null, Infinity)

(* lines 431-435: the comparator of the sort, a before b *)
startBefore(a, b) ==
  IF a.local # b.local THEN b.local - a.local < 0
  ELSE IF a.centerD2 # b.centerD2 THEN a.centerD2 - b.centerD2 < 0
  ELSE a.point.id - b.point.id < 0

(* Array.prototype.sort: a stable sort by startBefore *)
RECURSIVE InsertStart(_, _)
InsertStart(sorted, item) ==
  IF sorted = <<>> THEN <<item>>
  ELSE IF startBefore(item, Head(sorted)) THEN <<item>> \o sorted
  ELSE <<Head(sorted)>> \o InsertStart(Tail(sorted), item)

RECURSIVE SortStarts(_, _, _)
SortStarts(items, i, sorted) ==
  IF i > Len(items) THEN sorted
  ELSE SortStarts(items, i + 1, InsertStart(sorted, items[i]))

scoredStarts(safe, counts, center) ==
  SortStarts([i \in DOMAIN safe |->
                [point |-> safe[i],
                 local |-> MapGetOr(counts, safe[i].id, 1) - 1,
                 centerD2 |-> dist2(center, safe[i])]],
             1, <<>>)

MaxStartCandidates == 12

(* mutant: every safe point starts a walk *)
startCandidatesOf_All(safe, counts, center) ==
  [i \in DOMAIN safe |-> scoredStarts(safe, counts, center)[i].point]

(* mutant: the point closest to the center is not added *)
startCandidatesOf_NoClosest(safe, counts, center) ==
  LET scored == scoredStarts(safe, counts, center)
  IN [i \in 1..Min(MaxStartCandidates, Len(scored)) |-> scored[i].point]

(* lines 437-444 *)
startCandidatesOf(safe, counts, center) ==
  LET scored == scoredStarts(safe, counts, center)
      maxStartCandidates == Min(MaxStartCandidates, Len(scored))
      top == [i \in 1..maxStartCandidates |-> scored[i].point]
      closest == closestToCenter(safe, center)
  IN IF closest # Null /\ ~(\E i \in DOMAIN top : top[i].id = closest.id)
     THEN Append(top, closest)
     ELSE top

(* The closure buildGreedyPath runs in *)
Locals(pts, dIds, st) ==
  LET safe == safeInArea(pts, dIds, st)
      counts == stepNeighborCountsOf(safe, st)
  IN [total |-> Len(pts),
      maxWaypoints |-> cappedMaxWaypoints(st),
      maxStep |-> st.maxStepDistance,
      avoidRadius |-> st.avoidDenseTravelRadius,
      center |-> st.center,
      inAreaLen |-> Len(inArea(pts, st)),
      denseInAreaLen |-> Len(denseInArea(pts, dIds, st)),
      safeInArea |-> safe,
      denseIndex |-> denseIndexOf(pts, dIds, st),
      maxStep2 |-> maxStep2Of(st),
      safeIndex |-> safeIndexOf(safe, st),
      stepNeighborCounts |-> counts,
      startCandidates |-> IF Len(safe) = 0 THEN <<>>
                          ELSE startCandidatesOf(safe, counts, st.center)]

----------------------------------------------------------------------------
(* generateAutoRoute: buildGreedyPath, lines 446-529 *)

queriesIndex(e) == e.safeIndex # Null /\ e.maxStep > 0 /\ e.maxStep2 < Infinity

(* lines 455-458 *)
candidatesOf(e, current) ==
  IF queriesIndex(e) THEN queryPointsWithin(e.safeIndex, current, e.maxStep)
  ELSE e.safeInArea

(* mutant: without a step distance the degree is the number of unvisited
   safe points at most one unit from the candidate *)
degreeOf_Near(e, candidate, vis) ==
  IF queriesIndex(e)
  THEN LET neighbors == queryPointsWithin(e.safeIndex, candidate, e.maxStep)
       IN Cardinality({ i \in DOMAIN neighbors :
                          /\ neighbors[i].id # candidate.id
                          /\ ~(neighbors[i].id \in vis) })
  ELSE Cardinality({ i \in DOMAIN e.safeInArea :
                       /\ e.safeInArea[i].id # candidate.id
                       /\ ~(e.safeInArea[i].id \in vis)
                       /\ dist2(e.safeInArea[i], candidate) <= 1 })

(* lines 474-484 *)
degreeOf(e, candidate, vis) ==
  IF queriesIndex(e)
  THEN LET neighbors == queryPointsWithin(e.safeIndex, candidate, e.maxStep)
       IN Cardinality({ i \in DOMAIN neighbors :
                          /\ neighbors[i].id # candidate.id
                          /\ ~(neighbors[i].id \in vis) })
  ELSE Len(e.safeInArea) - Cardinality(vis)

(* mutant: a visited point may be taken again *)
validCandidate_Revisit(e, current, vis, candidate) ==
  /\ candidate.id # current.id
  /\ ~(dist2(current, candidate) > e.maxStep2)
  /\ segmentAvoidsDense(current, candidate, e.denseIndex, e.avoidRadius)

(* mutant: a candidate at exactly one step is skipped *)
validCandidate_StrictStep(e, current, vis, candidate) ==
  /\ candidate.id # current.id
  /\ ~(candidate.id \in vis)
  /\ dist2(current, candidate) < e.maxStep2
  /\ segmentAvoidsDense(current, candidate, e.denseIndex, e.avoidRadius)

(* lines 467-472: the candidates the loop does not skip *)
validCandidate(e, current, vis, candidate) ==
  /\ candidate.id # current.id
  /\ ~(candidate.id \in vis)
  /\ ~(dist2(current, candidate) > e.maxStep2)
  /\ segmentAvoidsDense(current, candidate, e.denseIndex, e.avoidRadius)

(* mutant: the nearer candidate wins before the local degree is looked at *)
betterOf_NearestFirst(acc, candidate, degree, local, stepD2, centerD2) ==
  IF degree > acc.bestDegree
  THEN [best |-> candidate, bestDegree |-> degree, bestLocal |-> local,
        bestStepD2 |-> stepD2, bestCenterD2 |-> centerD2]
  ELSE IF degree < acc.bestDegree THEN acc
  ELSE IF stepD2 < acc.bestStepD2
  THEN [acc EXCEPT !.best = candidate, !.bestLocal = local,
                   !.bestStepD2 = stepD2, !.bestCenterD2 = centerD2]
  ELSE IF stepD2 > acc.bestStepD2 THEN acc
  ELSE IF local > acc.bestLocal
  THEN [acc EXCEPT !.best = candidate, !.bestLocal = local,
                   !.bestCenterD2 = centerD2]
  ELSE IF local < acc.bestLocal THEN acc
  ELSE IF centerD2 < acc.bestCenterD2
  THEN [acc EXCEPT !.best = candidate, !.bestCenterD2 = centerD2]
  ELSE acc

(* lines 489-520: one candidate against the best so far *)
betterOf(acc, candidate, degree, local, stepD2, centerD2) ==
  IF degree > acc.bestDegree
  THEN [best |-> candidate, bestDegree |-> degree, bestLocal |-> local,
        bestStepD2 |-> stepD2, bestCenterD2 |-> centerD2]
  ELSE IF degree < acc.bestDegree THEN acc
  ELSE IF local > acc.bestLocal
  THEN [acc EXCEPT !.best = candidate, !.bestLocal = local,
                   !.bestStepD2 = stepD2, !.bestCenterD2 = centerD2]
  ELSE IF local < acc.bestLocal THEN acc
  ELSE IF stepD2 < acc.bestStepD2
  THEN [acc EXCEPT !.best = candidate, !.bestStepD2 = stepD2,
                   !.bestCenterD2 = centerD2]
  ELSE IF stepD2 > acc.bestStepD2 THEN acc
  ELSE IF centerD2 < acc.bestCenterD2
  THEN [acc EXCEPT !.best = candidate, !.bestCenterD2 = centerD2]
  ELSE acc

(* lines 466-521: the loop over the candidates *)
RECURSIVE PickLoop(_, _, _, _, _, _)
PickLoop(e, current, vis, candidates, i, acc) ==
  IF i > Len(candidates) THEN acc
  ELSE LET candidate == candidates[i]
       IN IF ~validCandidate(e, current, vis, candidate)
          THEN PickLoop(e, current, vis, candidates, i + 1, acc)
          ELSE PickLoop(e, current, vis, candidates, i + 1,
                        betterOf(acc, candidate,
                                 degreeOf(e, candidate, vis),
                                 MapGetOr(e.stepNeighborCounts, candidate.id, 1) - 1,
                                 dist2(current, candidate),
                                 dist2(e.center, candidate)))

(* lines 453-521: best, for the route so far *)
pickNext(e, r, vis) ==
  LET current == r[Len(r)]
  IN PickLoop(e, current, vis, candidatesOf(e, current), 1,
              [best |-> Null, bestDegree |-> -1, bestLocal |-> -1,
               bestStepD2 |-> Infinity, bestCenterD2 |-> Infinity]).best

(* lines 452-526: the while loop, from a route and its visited set *)
RECURSIVE WalkLoop(_, _, _)
WalkLoop(e, r, vis) ==
  IF ~(Len(r) < e.maxWaypoints) THEN r
  ELSE LET best == pickNext(e, r, vis)
       IN IF best = Null THEN r
          ELSE WalkLoop(e, Append(r, best), vis \cup {best.id})

buildGreedyPath(e, start) == WalkLoop(e, <<start>>, {start.id})

(* mutant: a walk of equal length and equal cost replaces the best *)
keepBetter_OnTie(b, r) ==
  IF Len(r) > Len(b.route) THEN [route |-> r, cost |-> routeCost(r)]
  ELSE IF Len(r) = Len(b.route) /\ routeCost(r) <= b.cost
  THEN [route |-> r, cost |-> routeCost(r)]
  ELSE b

(* mutant: of two walks of equal length the first is kept whatever they cost *)
keepBetter_LengthOnly(b, r) ==
  IF Len(r) > Len(b.route) THEN [route |-> r, cost |-> routeCost(r)]
  ELSE b

(* lines 536-547: the best of the route so far and the next walk's route *)
keepBetter(b, r) ==
  IF Len(r) > Len(b.route) THEN [route |-> r, cost |-> routeCost(r)]
  ELSE IF Len(r) = Len(b.route) /\ routeCost(r) < b.cost
  THEN [route |-> r, cost |-> routeCost(r)]
  ELSE b

statsOf(e, picked) ==
  [total |-> e.total, inArea |-> e.inAreaLen, denseInArea |-> e.denseInAreaLen,
   safeInArea |-> Len(e.safeInArea), picked |-> picked]

earlyReturn(e) == e.maxWaypoints = 0 \/ Len(e.safeInArea) = 0

(* lines 531-548 *)
RECURSIVE BestLoop(_, _, _)
BestLoop(e, i, b) ==
  IF i > Len(e.startCandidates) THEN b
  ELSE BestLoop(e, i + 1, keepBetter(b, buildGreedyPath(e, e.startCandidates[i])))

(* generateAutoRoute as a function of its arguments *)
generateAutoRoute(pts, dIds, st) ==
  LET e == Locals(pts, dIds, st)
  IN IF earlyReturn(e) THEN [route |-> <<>>, stats |-> statsOf(e, 0)]
     ELSE LET first == buildGreedyPath(e, e.startCandidates[1])
              b == BestLoop(e, 2, [route |-> first, cost |-> routeCost(first)])
          IN [route |-> b.route, stats |-> statsOf(e, Len(b.route))]

----------------------------------------------------------------------------
(* tuneAutoRouteParams.  Radii are kept in whole world units: a product with
   a decimal factor and a square root are cut to the unit below. *)

(* value * (hundredths / 100) *)
Scaled(value, hundredths) == (value * hundredths) \div 100

RECURSIVE SqrtBetween(_, _, _)
SqrtBetween(n, lo, hi) ==
  IF hi - lo <= 1 THEN lo
  ELSE LET mid == (lo + hi) \div 2
       IN IF mid * mid <= n THEN SqrtBetween(n, mid, hi) ELSE SqrtBetween(n, lo, mid)

(* Math.sqrt *)
Sqrt(n) == SqrtBetween(n, 0, n + 1)

(* the values of S in ascending order *)
RECURSIVE SeqOfSet(_)
SeqOfSet(S) ==
  IF S = {} THEN <<>>
  ELSE LET k == CHOOSE m \in S : \A o \in S : m <= o
       IN <<k>> \o SeqOfSet(S \ {k})

(* lines 157-169: the values > 0, sorted, each once *)
uniqueSorted(values) ==
  SeqOfSet({ values[i] : i \in { j \in DOMAIN values : values[j] > 0 } })

(* lines 171-193 *)
estimateBaseSpacing(pts) ==
  IF Len(pts) = 0 THEN 0
  ELSE
    LET xs == { pts[i].x : i \in DOMAIN pts }
        ys == { pts[i].y : i \in DOMAIN pts }
        minX == CHOOSE v \in xs : \A o \in xs : v <= o
        maxX == CHOOSE v \in xs : \A o \in xs : v >= o
        minY == CHOOSE v \in ys : \A o \in ys : v <= o
        maxY == CHOOSE v \in ys : \A o \in ys : v >= o
        width == maxX - minX
        height == maxY - minY
        area == width * height
        extent == Max(Abs(width), Abs(height))
    IN IF area > 0 THEN Sqrt(area \div Max(1, Len(pts)))
       ELSE IF extent > 0 THEN Sqrt((extent * extent) \div Max(1, Len(pts)))
       ELSE 0

(* lines 201-205: a stable sort by squared distance to the center *)
RECURSIVE InsertByD2(_, _, _)
InsertByD2(sorted, item, center) ==
  IF sorted = <<>> THEN <<item>>
  ELSE IF dist2(center, item) - dist2(center, Head(sorted)) < 0 THEN <<item>> \o sorted
  ELSE <<Head(sorted)>> \o InsertByD2(Tail(sorted), item, center)

RECURSIVE SortByD2(_, _, _, _)
SortByD2(items, i, sorted, center) ==
  IF i > Len(items) THEN sorted
  ELSE SortByD2(items, i + 1, InsertByD2(sorted, items[i], center), center)

byDistance(pts, center, cappedWaypoints) ==
  LET localCount == Min(Len(pts), Max(2000, Min(5000, cappedWaypoints * 200)))
  IN SubSeq(SortByD2(pts, 1, <<>>, center), 1, localCount)

DefaultBaseSpacing == 200
DirtySupportFactor == 6
MinSupportCount == 3
DenseCount == 3

cappedWaypointsOf_AtLeastOne(maxWaypoints) == Max(1, Floor(maxWaypoints))

(* line 196 *)
cappedWaypointsOf(maxWaypoints) == Max(0, Floor(maxWaypoints))

(* mutant: a point is dirty with three neighbours as well *)
isDirty_UpToThree(count) == count <= MinSupportCount

(* line 215 *)
isDirty(count) == count < MinSupportCount

(* lines 211-216 and 234-239: the ids whose count passes the test *)
dirtyIdsOf(pts, counts) ==
  { pts[i].id : i \in { j \in DOMAIN pts : isDirty(MapGetOr(counts, pts[j].id, 1)) } }

tunerDenseIds_MoreThan(basePoints, counts) ==
  { basePoints[i].id :
      i \in { j \in DOMAIN basePoints : MapGetOr(counts, basePoints[j].id, 1) > DenseCount } }

tunerDenseIds(basePoints, counts) ==
  { basePoints[i].id :
      i \in { j \in DOMAIN basePoints : MapGetOr(counts, basePoints[j].id, 1) >= DenseCount } }

(* line 218 *)
basePointsOf(pts, cleanedPoints, cappedWaypoints) ==
  IF Len(cleanedPoints) >= Min(Len(pts), Max(100, cappedWaypoints * 5))
  THEN cleanedPoints ELSE pts

(* lines 196-228: the locals before the loops *)
TunerLocals(pts, center, maxWaypoints) ==
  LET cappedWaypoints == cappedWaypointsOf(maxWaypoints)
      baseSpacingRaw == estimateBaseSpacing(byDistance(pts, center, cappedWaypoints))
      baseSpacing == IF baseSpacingRaw > 0 THEN baseSpacingRaw ELSE DefaultBaseSpacing
      dirtySupportRadius == baseSpacing * DirtySupportFactor
      dirtyIds == dirtyIdsOf(pts, computeNeighborCounts(pts, dirtySupportRadius))
      cleanedPoints == SelectSeq(pts, LAMBDA p : ~(p.id \in dirtyIds))
      basePoints == basePointsOf(pts, cleanedPoints, cappedWaypoints)
  IN [cappedWaypoints |-> cappedWaypoints,
      baseSpacing |-> baseSpacing,
      dirtySupportRadius |-> dirtySupportRadius,
      basePoints |-> basePoints,
      clusterCandidates |->
        uniqueSorted(<<Scaled(baseSpacing, 25), Scaled(baseSpacing, 35),
                       Scaled(baseSpacing, 50), Scaled(baseSpacing, 70),
                       Scaled(baseSpacing, 100), Scaled(baseSpacing, 140),
                       Scaled(baseSpacing, 200)>>)]

(* lines 253-264 *)
stepCandidatesOf(baseSpacing, clusterRadius) ==
  SelectSeq(uniqueSorted(<<Scaled(baseSpacing, 80), Scaled(baseSpacing, 100),
                           Scaled(baseSpacing, 130), Scaled(baseSpacing, 170),
                           Scaled(baseSpacing, 220), Scaled(baseSpacing, 300),
                           Scaled(clusterRadius, 130), Scaled(clusterRadius, 180),
                           Scaled(clusterRadius, 240), Scaled(clusterRadius, 320)>>),
            LAMBDA value : value * 100 > clusterRadius * 105)

(* mutant: the area is measured to the farthest safe point *)
ClusterLocals_Farthest(t, center, clusterRadius) ==
  LET dIds == tunerDenseIds(t.basePoints, computeNeighborCounts(t.basePoints, clusterRadius))
      safePoints == SelectSeq(t.basePoints, LAMBDA p : ~(p.id \in dIds))
      nearestFirst == SortByD2(safePoints, 1, <<>>, center)
      safeDistances == [k \in 1..Len(safePoints) |-> Sqrt(dist2(center, nearestFirst[k]))]
  IN [clusterRadius |-> clusterRadius,
      denseIds |-> dIds,
      safeCount |-> Len(safePoints),
      areaBase |-> IF Len(safeDistances) > 0 THEN safeDistances[Len(safeDistances)] ELSE 0,
      stepCandidates |-> stepCandidatesOf(t.baseSpacing, clusterRadius)]

(* lines 234-264: the locals of one cluster radius *)
ClusterLocals(t, center, clusterRadius) ==
  LET dIds == tunerDenseIds(t.basePoints, computeNeighborCounts(t.basePoints, clusterRadius))
      safePoints == SelectSeq(t.basePoints, LAMBDA p : ~(p.id \in dIds))
      nearestFirst == SortByD2(safePoints, 1, <<>>, center)
      safeDistances == [k \in 1..Len(safePoints) |-> Sqrt(dist2(center, nearestFirst[k]))]
      targetSafe == Min(Len(safeDistances),
                        Max(t.cappedWaypoints * 6, Min(400, t.cappedWaypoints * 12)))
  IN [clusterRadius |-> clusterRadius,
      denseIds |-> dIds,
      safeCount |-> Len(safePoints),
      areaBase |-> IF targetSafe \in DOMAIN safeDistances THEN safeDistances[targetSafe]
                   ELSE IF Len(safeDistances) > 0 THEN safeDistances[Len(safeDistances)]
                   ELSE 0,
      stepCandidates |-> stepCandidatesOf(t.baseSpacing, clusterRadius)]

(* lines 267-279: one trial *)
trialOf(t, c, center, maxStepDistance) ==
  LET maxAreaRadius == c.areaBase + Scaled(maxStepDistance, 35)
      avoidDenseTravelRadius == Max(Scaled(c.clusterRadius, 115), Scaled(maxStepDistance, 25))
      res == generateAutoRoute(t.basePoints, c.denseIds,
                               [center |-> center,
                                maxAreaRadius |-> maxAreaRadius,
                                maxStepDistance |-> maxStepDistance,
                                maxWaypoints |-> t.cappedWaypoints * WaypointScale,
                                avoidDenseTravelRadius |-> avoidDenseTravelRadius])
  IN [params |-> [clusterRadius |-> c.clusterRadius,
                  maxAreaRadius |-> maxAreaRadius,
                  maxStepDistance |-> maxStepDistance,
                  avoidDenseTravelRadius |-> avoidDenseTravelRadius,
                  dirtySupportRadius |-> t.dirtySupportRadius],
      len |-> Len(res.route),
      cost |-> routeCost(res.route)]

(* mutant: of two trials of equal length and step the later wins unless it is
   cheaper *)
betterTrial_Costlier(best, trial) ==
  IF best = Null THEN trial
  ELSE IF trial.len > best.len THEN trial
  ELSE IF trial.len < best.len THEN best
  ELSE IF trial.params.maxStepDistance < best.params.maxStepDistance THEN trial
  ELSE IF trial.params.maxStepDistance > best.params.maxStepDistance THEN best
  ELSE IF trial.cost > best.cost THEN trial
  ELSE best

(* lines 281-316: best after a trial *)
betterTrial(best, trial) ==
  IF best = Null THEN trial
  ELSE IF trial.len > best.len THEN trial
  ELSE IF trial.len < best.len THEN best
  ELSE IF trial.params.maxStepDistance < best.params.maxStepDistance THEN trial
  ELSE IF trial.params.maxStepDistance > best.params.maxStepDistance THEN best
  ELSE IF trial.cost < best.cost THEN trial
  ELSE best

(* lines 266-317: the trials of one cluster radius *)
RECURSIVE StepLoop(_, _, _, _, _)
StepLoop(t, c, center, i, best) ==
  IF i > Len(c.stepCandidates) THEN best
  ELSE StepLoop(t, c, center, i + 1,
                betterTrial(best, trialOf(t, c, center, c.stepCandidates[i])))

(* lines 233-318: the cluster radii in turn *)
RECURSIVE ClusterLoop(_, _, _, _)
ClusterLoop(t, center, k, best) ==
  IF k > Len(t.clusterCandidates) THEN best
  ELSE LET c == ClusterLocals(t, center, t.clusterCandidates[k])
       IN ClusterLoop(t, center, k + 1,
                      IF c.safeCount = 0 THEN best ELSE StepLoop(t, c, center, 1, best))

(* tuneAutoRouteParams as a function of its arguments *)
tuneAutoRouteParams(pts, center, maxWaypoints) ==
  IF cappedWaypointsOf(maxWaypoints) = 0 \/ Len(pts) = 0 THEN Null
  ELSE LET best == ClusterLoop(TunerLocals(pts, center, maxWaypoints), center, 1, Null)
       IN IF best = Null THEN Null ELSE best.params

----------------------------------------------------------------------------
(* The inputs the model draws *)

Coords == (0..2) \X (0..1)

(* Lists of at most MaxPoints points at any coordinates, in any order, two
   points at one place included; the ids are 1, 2, ... in input order *)
ListInputs ==
  UNION { { [points |-> [i \in 1..n |->
                           [id |-> i, x |-> f[i][1], y |-> f[i][2], z |-> i]],
             denseIds |-> d] :
              f \in [1..n -> Coords], d \in SUBSET (1..n) } : n \in 0..MaxPoints }

(* The places of the stage in input order; the last one doubles the second *)
Stage ==
  << <<0, 0>>, <<1, 0>>, <<2, 0>>, <<0, 1>>, <<1, 1>>, <<2, 1>>, <<1, 0>> >>

(* At most MaxStagePoints of the places of the stage, each taken by one point,
   in stage order; the ids fall as the input goes on *)
StageInputs ==
  { [points |-> [i \in 1..Cardinality(used) |->
                   LET k == SeqOfSet(used)[i]
                   IN [id |-> 10 - k, x |-> Stage[k][1], y |-> Stage[k][2], z |-> k]],
     denseIds |-> { 10 - k : k \in dense }] :
      used \in { u \in SUBSET (DOMAIN Stage) : Cardinality(u) <= MaxStagePoints },
      dense \in SUBSET (DOMAIN Stage) } 

RouteInputs ==
  ListInputs \cup { inp \in StageInputs : inp.denseIds \subseteq IdsOf(inp.points) }

Centers == { [x |-> 0, y |-> 0] }
AreaRadii == {-1, 0, 1, 2}
StepRadii == {0, 1, 2}
AvoidRadii == {0, 1}
(* maxWaypoints in units of 1/WaypointScale *)
WaypointValues == {-1, 0, 1, WaypointScale, 2 * WaypointScale + 1, 4 * WaypointScale}

SettingsSet ==
  [center : Centers, maxAreaRadius : AreaRadii, maxStepDistance : StepRadii,
   maxWaypoints : WaypointValues, avoidDenseTravelRadius : AvoidRadii]

----------------------------------------------------------------------------
(* generateAutoRoute as a state machine: one greedy walk after the other,
   one waypoint at a time *)

(* the call has returned *)
Done == pc = "done"

Init ==
  /\ pc = "call"
  /\ \E inp \in RouteInputs : points = inp.points /\ denseIds = inp.denseIds
  /\ settings \in SettingsSet
  /\ env = Null
  /\ walk = 0
  /\ route = <<>>
  /\ visited = {}
  /\ bestRoute = <<>>
  /\ bestCost = 0
  /\ result = Null
  /\ ncRadius = 0
  /\ ncIndex = Null
  /\ ncCursor = 0
  /\ ncCounts = EmptyMap
  /\ tnArgs = Null
  /\ tn = Null
  /\ tnLoop = Null
  /\ tnCluster = 0
  /\ tnStep = 0
  /\ tnBest = Null
  /\ tnTrials = 0
  /\ crCount = 0
  /\ crStride = 0
  /\ crIndex = 0
  /\ crSampled = <<>>
  /\ crTunePoints = Null
  /\ gItems = <<>>
  /\ gCellSize = 0
  /\ gIndex = Null
  /\ gArgs = Null
  /\ gFound = Null
  /\ gClear = Null
  /\ IdleDirty
  /\ IdleTiles

(* lines 364-403: the locals, and the early return *)
Call ==
  /\ pc = "call"
  /\ LET e == Locals(points, denseIds, settings)
     IN /\ env' = e
        /\ IF earlyReturn(e)
           THEN /\ result' = [route |-> <<>>, stats |-> statsOf(e, 0)]
                /\ pc' = "done"
                /\ walk' = walk
                /\ points' = argumentAfter(points, e.safeInArea)
           ELSE /\ result' = result
                /\ pc' = "start"
                /\ walk' = 1
                /\ points' = argumentAfter(points,
                                [i \in DOMAIN e.safeInArea |->
                                   scoredStarts(e.safeInArea, e.stepNeighborCounts,
                                                e.center)[i].point])
  /\ UNCHANGED <<denseIds, settings, route, visited, bestRoute, bestCost, countVars, tuneVars, sampleVars, gridVars, dirtyVars, tileVars>>

(* lines 447-450: a greedy walk begins at its start candidate *)
StartWalk ==
  /\ pc = "start"
  /\ route' = <<env.startCandidates[walk]>>
  /\ visited' = {env.startCandidates[walk].id}
  /\ pc' = "walk"
  /\ UNCHANGED <<points, denseIds, settings, env, walk, bestRoute, bestCost, result, countVars, tuneVars, sampleVars, gridVars, dirtyVars, tileVars>>

(* lines 452-525: one iteration of the while loop that appends *)
Extend ==
  /\ pc = "walk"
  /\ Len(route) < env.maxWaypoints
  /\ LET best == pickNext(env, route, visited)
     IN /\ best # Null
        /\ route' = Append(route, best)
        /\ visited' = visited \cup {best.id}
  /\ UNCHANGED <<pc, points, denseIds, settings, env, walk, bestRoute, bestCost, result, countVars, tuneVars, sampleVars, gridVars, dirtyVars, tileVars>>

(* lines 523, 528 and 531-547: the walk ends and is compared with the best *)
FinishWalk ==
  /\ pc = "walk"
  /\ \/ ~(Len(route) < env.maxWaypoints)
     \/ pickNext(env, route, visited) = Null
  /\ LET b == IF walk = 1 THEN [route |-> route, cost |-> routeCost(route)]
              ELSE keepBetter([route |-> bestRoute, cost |-> bestCost], route)
     IN /\ bestRoute' = b.route
        /\ bestCost' = b.cost
  /\ walk' = walk + 1
  /\ pc' = IF walk + 1 > Len(env.startCandidates) THEN "return" ELSE "start"
  /\ UNCHANGED <<points, denseIds, settings, env, route, visited, result, countVars, tuneVars, sampleVars, gridVars, dirtyVars, tileVars>>

(* lines 550-559 *)
Return ==
  /\ pc = "return"
  /\ result' = [route |-> bestRoute, stats |-> statsOf(env, Len(bestRoute))]
  /\ pc' = "done"
  /\ UNCHANGED <<points, denseIds, settings, env, walk, route, visited, bestRoute, bestCost, countVars, tuneVars, sampleVars, gridVars, dirtyVars, tileVars>>

Next == Call \/ StartWalk \/ Extend \/ FinishWalk \/ Return

Spec == Init /\ [][Next]_vars

----------------------------------------------------------------------------
(* generateAutoRoute on the scenes of the specification *)

(* the one-to-one maps of 1..n onto itself *)
Perms(n) == { f \in [1..n -> 1..n] : \A i, j \in 1..n : f[i] = f[j] => i = j }

(* Three points in a row within the area and one far outside *)
RowPlaces == << <<0, 0>>, <<10, 0>>, <<20, 0>>, <<100, 100>> >>

RowSettings ==
  [center |-> [x |-> 0, y |-> 0], maxAreaRadius |-> 50, maxStepDistance |-> 15,
   maxWaypoints |-> 10 * WaypointScale, avoidDenseTravelRadius |-> 0]

(* the four points in every input order under every numbering by 1..4 *)
RowInputs ==
  { [points |-> [i \in 1..4 |->
                   [id |-> g[i], x |-> RowPlaces[f[i]][1], y |-> RowPlaces[f[i]][2],
                    z |-> i]],
     denseIds |-> {},
     settings |-> RowSettings] : f \in Perms(4), g \in Perms(4) }

(* Six places pairwise at most 10 apart, (0,0) and (8,6) exactly 10, and two
   places 500 and more from each of them *)
ClusterPlaces == << <<0, 0>>, <<6, 0>>, <<0, 6>>, <<6, 6>>, <<3, 3>>, <<8, 6>> >>
FarPlaces == { <<508, 6>>, <<0, -500>> }

ClusterSettings ==
  [center : { [x |-> 0, y |-> 0] },
   maxAreaRadius : {0, 600},
   maxStepDistance : {0, 10, 600},
   maxWaypoints : {WaypointScale, 10 * WaypointScale},
   avoidDenseTravelRadius : {0, 5, 600}]

(* lines 1379-1384: the ids that computeNeighborCounts gives a count of 3 or more *)
denseAt(pts, radius) == tunerDenseIds(pts, computeNeighborCounts(pts, radius))

(* five of the six places and one far place put at any position of the
   input, numbered upwards or downwards; denseIds as counted at radius 10 *)
ClusterInputs ==
  { LET near == SeqOfSet(used)
        pts == [i \in 1..6 |->
                  LET place == IF i = at THEN far
                               ELSE ClusterPlaces[near[IF i < at THEN i ELSE i - 1]]
                  IN [id |-> IF up THEN i ELSE 7 - i, x |-> place[1], y |-> place[2],
                      z |-> i]]
    IN [points |-> pts, denseIds |-> denseAt(pts, 10), settings |-> st] :
      used \in { u \in SUBSET (DOMAIN ClusterPlaces) : Cardinality(u) = 5 },
      far \in FarPlaces, at \in 1..6, up \in BOOLEAN, st \in ClusterSettings }

(* Fifteen safe points one unit apart on a line, more than the walks that are
   started, seen from its end and from within *)
LineInputs ==
  { [points |-> [i \in 1..15 |-> [id |-> i, x |-> i - 1, y |-> 0, z |-> 0]],
     denseIds |-> {},
     settings |-> [center |-> [x |-> cx, y |-> 0], maxAreaRadius |-> 0,
                   maxStepDistance |-> 1, maxWaypoints |-> mw,
                   avoidDenseTravelRadius |-> 0]] :
      cx \in {0, 5}, mw \in {2 * WaypointScale, 3 * WaypointScale + 1} }

(* Three or four points of the stage under a negative step distance, with
   and without an area and an avoidance radius *)
FreeSettings ==
  [center : { [x |-> 0, y |-> 0] },
   maxAreaRadius : {-1, 2},
   maxStepDistance : {-1},
   maxWaypoints : {2 * WaypointScale + 1, 4 * WaypointScale},
   avoidDenseTravelRadius : {-1, 1}]

FreeInputs ==
  { [points |-> inp.points, denseIds |-> inp.denseIds, settings |-> st] :
      inp \in { i \in StageInputs :
                  Len(i.points) >= 3 /\ i.denseIds \subseteq IdsOf(i.points) },
      st \in FreeSettings }

SceneInputs == RowInputs \cup ClusterInputs \cup LineInputs \cup FreeInputs

InitScenes ==
  /\ pc = "call"
  /\ \E inp \in SceneInputs :
       /\ points = inp.points
       /\ denseIds = inp.denseIds
       /\ settings = inp.settings
  /\ env = Null
  /\ walk = 0
  /\ route = <<>>
  /\ visited = {}
  /\ bestRoute = <<>>
  /\ bestCost = 0
  /\ result = Null
  /\ ncRadius = 0
  /\ ncIndex = Null
  /\ ncCursor = 0
  /\ ncCounts = EmptyMap
  /\ tnArgs = Null
  /\ tn = Null
  /\ tnLoop = Null
  /\ tnCluster = 0
  /\ tnStep = 0
  /\ tnBest = Null
  /\ tnTrials = 0
  /\ crCount = 0
  /\ crStride = 0
  /\ crIndex = 0
  /\ crSampled = <<>>
  /\ crTunePoints = Null
  /\ gItems = <<>>
  /\ gCellSize = 0
  /\ gIndex = Null
  /\ gArgs = Null
  /\ gFound = Null
  /\ gClear = Null
  /\ IdleDirty
  /\ IdleTiles

SpecScenes == InitScenes /\ [][Next]_vars

----------------------------------------------------------------------------
(* generateAutoRoute from before the call: the caller hands over the
   arguments, and a call that has not returned takes its next step *)

InitLive ==
  /\ pc = "enter"
  /\ points = <<>>
  /\ denseIds = {}
  /\ settings = Null
  /\ env = Null
  /\ walk = 0
  /\ route = <<>>
  /\ visited = {}
  /\ bestRoute = <<>>
  /\ bestCost = 0
  /\ result = Null
  /\ ncRadius = 0
  /\ ncIndex = Null
  /\ ncCursor = 0
  /\ ncCounts = EmptyMap
  /\ tnArgs = Null
  /\ tn = Null
  /\ tnLoop = Null
  /\ tnCluster = 0
  /\ tnStep = 0
  /\ tnBest = Null
  /\ tnTrials = 0
  /\ crCount = 0
  /\ crStride = 0
  /\ crIndex = 0
  /\ crSampled = <<>>
  /\ crTunePoints = Null
  /\ gItems = <<>>
  /\ gCellSize = 0
  /\ gIndex = Null
  /\ gArgs = Null
  /\ gFound = Null
  /\ gClear = Null
  /\ IdleDirty
  /\ IdleTiles

(* lines 359-363: the parameters are bound to the arguments *)
Enter ==
  /\ pc = "enter"
  /\ \/ \E inp \in RouteInputs, st \in SettingsSet :
          /\ points' = inp.points
          /\ denseIds' = inp.denseIds
          /\ settings' = st
     \/ \E inp \in SceneInputs :
          /\ points' = inp.points
          /\ denseIds' = inp.denseIds
          /\ settings' = inp.settings
  /\ pc' = "call"
  /\ UNCHANGED <<env, walk, route, visited, bestRoute, bestCost, result, countVars, tuneVars, sampleVars, gridVars, dirtyVars, tileVars>>

NextLive == Enter \/ Next

(* Weak fairness of NextLive, WF_vars(NextLive), written out.  A step of
   NextLive is possible exactly when the call has not returned: every pc but
   "done" has an action whose guard holds.  Under [][NextLive]_vars a step
   that changes vars is a step of NextLive.  So the call returns, or steps
   that change vars go on for ever *)
Fairness == []<>Done \/ []<><<TRUE>>_vars

SpecLive == InitLive /\ [][NextLive]_vars /\ Fairness

----------------------------------------------------------------------------
(* computeNeighborCounts as a state machine: one point of the for loop at a time *)

CountCoords == (-2..2) \X (0..1)

(* Lists of at most MaxPoints points, ids repeated or not, and the point sets
   of the stage *)
CountInputs ==
  UNION { { [i \in 1..n |-> [id |-> g[i], x |-> f[i][1], y |-> f[i][2], z |-> i]] :
              f \in [1..n -> CountCoords], g \in [1..n -> 1..n] } : n \in 0..MaxPoints }
  \cup { inp.points : inp \in StageInputs }

CountRadii == {-1, 0, 1, 2, 3}

InitCounts ==
  /\ pc = "nc_call"
  /\ points \in CountInputs
  /\ ncRadius \in CountRadii
  /\ ncIndex = Null
  /\ ncCursor = 0
  /\ ncCounts = EmptyMap
  /\ result = Null
  /\ denseIds = {}
  /\ settings = Null
  /\ env = Null
  /\ walk = 0
  /\ route = <<>>
  /\ visited = {}
  /\ bestRoute = <<>>
  /\ bestCost = 0
  /\ tnArgs = Null
  /\ tn = Null
  /\ tnLoop = Null
  /\ tnCluster = 0
  /\ tnStep = 0
  /\ tnBest = Null
  /\ tnTrials = 0
  /\ crCount = 0
  /\ crStride = 0
  /\ crIndex = 0
  /\ crSampled = <<>>
  /\ crTunePoints = Null
  /\ gItems = <<>>
  /\ gCellSize = 0
  /\ gIndex = Null
  /\ gArgs = Null
  /\ gFound = Null
  /\ gClear = Null
  /\ IdleDirty
  /\ IdleTiles

(* lines 94-104 *)
NcCall ==
  /\ pc = "nc_call"
  /\ ncCounts' = EmptyMap
  /\ IF Len(points) = 0
     THEN /\ result' = EmptyMap
          /\ pc' = "done"
          /\ UNCHANGED <<ncIndex, ncCursor>>
     ELSE IF ~(ncRadius > 0)
     THEN /\ pc' = "nc_ones"
          /\ ncCursor' = 1
          /\ UNCHANGED <<ncIndex, result>>
     ELSE /\ pc' = "nc_scan"
          /\ ncIndex' = buildSpatialIndex(points, ncRadius)
          /\ ncCursor' = 1
          /\ UNCHANGED result
  /\ UNCHANGED <<points, ncRadius, routeVars, tuneVars, sampleVars, gridVars, dirtyVars, tileVars>>

(* line 98 *)
NcSetOne ==
  /\ pc = "nc_ones"
  /\ ncCursor <= Len(points)
  /\ ncCounts' = onesStep(ncCounts, points[ncCursor])
  /\ ncCursor' = ncCursor + 1
  /\ UNCHANGED <<pc, points, result, ncRadius, ncIndex, routeVars, tuneVars, sampleVars, gridVars, dirtyVars, tileVars>>

(* lines 106-123 *)
NcCount ==
  /\ pc = "nc_scan"
  /\ ncCursor <= Len(points)
  /\ ncCounts' = countStep(ncCounts, ncIndex, points[ncCursor], ncRadius)
  /\ ncCursor' = ncCursor + 1
  /\ UNCHANGED <<pc, points, result, ncRadius, ncIndex, routeVars, tuneVars, sampleVars, gridVars, dirtyVars, tileVars>>

(* lines 99 and 125 *)
NcReturn ==
  /\ pc \in {"nc_ones", "nc_scan"}
  /\ ncCursor > Len(points)
  /\ result' = ncCounts
  /\ pc' = "done"
  /\ UNCHANGED <<points, countVars, routeVars, tuneVars, sampleVars, gridVars, dirtyVars, tileVars>>

NextCounts == NcCall \/ NcSetOne \/ NcCount \/ NcReturn

SpecCounts == InitCounts /\ [][NextCounts]_vars

----------------------------------------------------------------------------
(* tuneAutoRouteParams as a state machine: one cluster radius after the other,
   one trial at a time *)

(* The places of the tuner's stage in input order, 60 units apart; the last
   two lie on the second *)
TuneStage ==
  << <<0, 0>>, <<60, 0>>, <<120, 0>>, <<0, 60>>, <<60, 60>>, <<120, 60>>,
     <<60, 0>>, <<60, 0>> >>

(* At most MaxStagePoints of the places, each taken by one point, in stage order *)
TuneInputs ==
  { [i \in 1..Cardinality(used) |->
       LET k == SeqOfSet(used)[i]
       IN [id |-> 10 - k, x |-> TuneStage[k][1], y |-> TuneStage[k][2], z |-> k]] :
      used \in { u \in SUBSET (DOMAIN TuneStage) : Cardinality(u) <= MaxStagePoints } }

TuneCenters == { [x |-> 0, y |-> 0], [x |-> 60, y |-> 60] }
(* maxWaypoints in units of 1/WaypointScale *)
TuneWaypointValues == {-1, 0, 1, WaypointScale, 3 * WaypointScale}

InitTune ==
  /\ pc = "tn_call"
  /\ points \in TuneInputs
  /\ tnArgs \in [center : TuneCenters, maxWaypoints : TuneWaypointValues]
  /\ tn = Null
  /\ tnLoop = Null
  /\ tnCluster = 0
  /\ tnStep = 0
  /\ tnBest = Null
  /\ tnTrials = 0
  /\ result = Null
  /\ denseIds = {}
  /\ settings = Null
  /\ env = Null
  /\ walk = 0
  /\ route = <<>>
  /\ visited = {}
  /\ bestRoute = <<>>
  /\ bestCost = 0
  /\ ncRadius = 0
  /\ ncIndex = Null
  /\ ncCursor = 0
  /\ ncCounts = EmptyMap
  /\ crCount = 0
  /\ crStride = 0
  /\ crIndex = 0
  /\ crSampled = <<>>
  /\ crTunePoints = Null
  /\ gItems = <<>>
  /\ gCellSize = 0
  /\ gIndex = Null
  /\ gArgs = Null
  /\ gFound = Null
  /\ gClear = Null
  /\ IdleDirty
  /\ IdleTiles

(* Sixteen points ten units apart in a square *)
GridSide == 4
TuneGrid ==
  [i \in 1..(GridSide * GridSide) |->
     [id |-> i, x |-> 10 * ((i - 1) % GridSide), y |-> 10 * ((i - 1) \div GridSide), z |-> 0]]

(* two points close to the first corner of the square *)
Huddle == << [id |-> 21, x |-> 3, y |-> 0, z |-> 0], [id |-> 22, x |-> 0, y |-> 3, z |-> 0] >>

(* the square alone, and the square with the two points at its corner *)
TuneScenes == { TuneGrid, TuneGrid \o Huddle }

(* maxWaypoints in units of 1/WaypointScale *)
SceneWaypointValues == {WaypointScale, 3 * WaypointScale, 5 * WaypointScale}

InitTuneScenes ==
  /\ pc = "tn_call"
  /\ points \in TuneScenes
  /\ tnArgs \in [center : TuneCenters, maxWaypoints : SceneWaypointValues]
  /\ tn = Null
  /\ tnLoop = Null
  /\ tnCluster = 0
  /\ tnStep = 0
  /\ tnBest = Null
  /\ tnTrials = 0
  /\ result = Null
  /\ denseIds = {}
  /\ settings = Null
  /\ env = Null
  /\ walk = 0
  /\ route = <<>>
  /\ visited = {}
  /\ bestRoute = <<>>
  /\ bestCost = 0
  /\ ncRadius = 0
  /\ ncIndex = Null
  /\ ncCursor = 0
  /\ ncCounts = EmptyMap
  /\ crCount = 0
  /\ crStride = 0
  /\ crIndex = 0
  /\ crSampled = <<>>
  /\ crTunePoints = Null
  /\ gItems = <<>>
  /\ gCellSize = 0
  /\ gIndex = Null
  /\ gArgs = Null
  /\ gFound = Null
  /\ gClear = Null
  /\ IdleDirty
  /\ IdleTiles

(* lines 196-231 *)
TnCall ==
  /\ pc = "tn_call"
  /\ IF cappedWaypointsOf(tnArgs.maxWaypoints) = 0 \/ Len(points) = 0
     THEN /\ result' = Null
          /\ pc' = "done"
          /\ UNCHANGED <<points, tn, tnCluster>>
     ELSE /\ tn' = TunerLocals(points, tnArgs.center, tnArgs.maxWaypoints)
          /\ tnCluster' = 1
          /\ pc' = "tn_cluster"
          /\ points' = argumentAfter(points,
                          byDistance(points, tnArgs.center,
                                     cappedWaypointsOf(tnArgs.maxWaypoints)))
          /\ UNCHANGED result
  /\ UNCHANGED <<tnArgs, tnLoop, tnStep, tnBest, tnTrials, routeVars, countVars, sampleVars, gridVars, dirtyVars, tileVars>>

(* lines 233-264: the next cluster radius, skipped when it leaves no safe point *)
TnCluster ==
  /\ pc = "tn_cluster"
  /\ tnCluster <= Len(tn.clusterCandidates)
  /\ LET c == ClusterLocals(tn, tnArgs.center, tn.clusterCandidates[tnCluster])
     IN IF c.safeCount = 0
        THEN /\ tnCluster' = tnCluster + 1
             /\ UNCHANGED <<pc, tnLoop, tnStep>>
        ELSE /\ tnLoop' = c
             /\ tnStep' = 1
             /\ pc' = "tn_step"
             /\ UNCHANGED tnCluster
  /\ UNCHANGED <<points, result, tnArgs, tn, tnBest, tnTrials, routeVars, countVars, sampleVars, gridVars, dirtyVars, tileVars>>

(* lines 266-317: one trial and its scoring *)
TnTrial ==
  /\ pc = "tn_step"
  /\ tnStep <= Len(tnLoop.stepCandidates)
  /\ tnBest' = betterTrial(tnBest,
                           trialOf(tn, tnLoop, tnArgs.center, tnLoop.stepCandidates[tnStep]))
  /\ tnTrials' = tnTrials + 1
  /\ tnStep' = tnStep + 1
  /\ UNCHANGED <<pc, points, result, tnArgs, tn, tnLoop, tnCluster, routeVars, countVars, sampleVars, gridVars, dirtyVars, tileVars>>

(* lines 266 and 233: the step candidates are used up *)
TnEndCluster ==
  /\ pc = "tn_step"
  /\ tnStep > Len(tnLoop.stepCandidates)
  /\ tnCluster' = tnCluster + 1
  /\ pc' = "tn_cluster"
  /\ UNCHANGED <<points, result, tnArgs, tn, tnLoop, tnStep, tnBest, tnTrials,
                 routeVars, countVars, sampleVars, gridVars, dirtyVars, tileVars>>

(* line 320 *)
TnReturn ==
  /\ pc = "tn_cluster"
  /\ tnCluster > Len(tn.clusterCandidates)
  /\ result' = IF tnBest = Null THEN Null ELSE tnBest.params
  /\ pc' = "done"
  /\ UNCHANGED <<points, tnArgs, tn, tnLoop, tnCluster, tnStep, tnBest, tnTrials,
                 routeVars, countVars, sampleVars, gridVars, dirtyVars, tileVars>>

NextTune == TnCall \/ TnCluster \/ TnTrial \/ TnEndCluster \/ TnReturn

SpecTune == InitTune /\ [][NextTune]_vars

(* the tuner on the small inputs and on the scenes *)
SpecTuneScenes == (InitTune \/ InitTuneScenes) /\ [][NextTune]_vars

----------------------------------------------------------------------------
(* tuneAutoRouteParams up to its loops, lines 196-218, one array element at a
   time: the sort by distance, the base spacing, the neighbour counts within
   the dirty-support radius, the dirty ids and the choice of the base points *)

(* A hundred points ten units apart in a square *)
DirtySide == 10
DirtyGrid ==
  [i \in 1..(DirtySide * DirtySide) |->
     [id |-> i, x |-> 10 * ((i - 1) % DirtySide), y |-> 10 * ((i - 1) \div DirtySide),
      z |-> 0]]

(* two points far to the right of the square: within six base spacings of
   either there is no other point *)
LoneLow == [id |-> 201, x |-> 10 * DirtySide + 70, y |-> 0, z |-> 0]
LoneHigh == [id |-> 202, x |-> 10 * DirtySide + 70, y |-> 10 * (DirtySide - 1), z |-> 0]

(* two points side by side and three points side by side, as far away *)
FarPair ==
  << [id |-> 203, x |-> 10 * DirtySide + 70, y |-> 0, z |-> 0],
     [id |-> 204, x |-> 10 * DirtySide + 72, y |-> 0, z |-> 0] >>
FarTriple ==
  << [id |-> 205, x |-> 10 * DirtySide + 70, y |-> 10 * (DirtySide - 1), z |-> 0],
     [id |-> 206, x |-> 10 * DirtySide + 72, y |-> 10 * (DirtySide - 1), z |-> 0],
     [id |-> 207, x |-> 10 * DirtySide + 70, y |-> 10 * (DirtySide - 1) + 2, z |-> 0] >>

(* the square, the square behind one lone point, the square less its last
   point between the two lone points, and the square with the pair and the
   three *)
DirtyScenes ==
  { DirtyGrid,
    <<LoneLow>> \o DirtyGrid,
    <<LoneLow>> \o SubSeq(DirtyGrid, 1, Len(DirtyGrid) - 1) \o <<LoneHigh>>,
    SubSeq(DirtyGrid, 1, 50) \o FarPair \o SubSeq(DirtyGrid, 51, Len(DirtyGrid)) \o FarTriple }

(* maxWaypoints in units of 1/WaypointScale *)
DirtyWaypointValues == TuneWaypointValues \cup {20 * WaypointScale, 21 * WaypointScale}

InitDirty ==
  /\ pc = "df_call"
  /\ points \in TuneInputs \cup DirtyScenes
  /\ tnArgs \in [center : TuneCenters, maxWaypoints : DirtyWaypointValues]
  /\ IdleDirty
  /\ tn = Null
  /\ tnLoop = Null
  /\ tnCluster = 0
  /\ tnStep = 0
  /\ tnBest = Null
  /\ tnTrials = 0
  /\ result = Null
  /\ denseIds = {}
  /\ settings = Null
  /\ env = Null
  /\ walk = 0
  /\ route = <<>>
  /\ visited = {}
  /\ bestRoute = <<>>
  /\ bestCost = 0
  /\ ncRadius = 0
  /\ ncIndex = Null
  /\ ncCursor = 0
  /\ ncCounts = EmptyMap
  /\ crCount = 0
  /\ crStride = 0
  /\ crIndex = 0
  /\ crSampled = <<>>
  /\ crTunePoints = Null
  /\ gItems = <<>>
  /\ gCellSize = 0
  /\ gIndex = Null
  /\ gArgs = Null
  /\ gFound = Null
  /\ gClear = Null
  /\ IdleTiles

(* lines 196-200 *)
DfCall ==
  /\ pc = "df_call"
  /\ IF cappedWaypointsOf(tnArgs.maxWaypoints) = 0 \/ Len(points) = 0
     THEN /\ result' = Null
          /\ pc' = "done"
          /\ UNCHANGED <<dfLocals, dfCursor>>
     ELSE /\ dfLocals' =
               [cappedWaypoints |-> cappedWaypointsOf(tnArgs.maxWaypoints),
                localCount |->
                  Min(Len(points),
                      Max(2000, Min(5000, cappedWaypointsOf(tnArgs.maxWaypoints) * 200)))]
          /\ dfCursor' = 1
          /\ pc' = "df_sort"
          /\ UNCHANGED result
  /\ UNCHANGED <<points, dfSorted, dfIndex, dfCounts, dfDirtyIds, dfBasePoints,
                 routeVars, countVars, tuneVars, sampleVars, gridVars, tileVars>>

(* lines 201-203: the next point takes its place among those sorted *)
DfSort ==
  /\ pc = "df_sort"
  /\ dfCursor <= Len(points)
  /\ dfSorted' = InsertByD2(dfSorted, points[dfCursor], tnArgs.center)
  /\ dfCursor' = dfCursor + 1
  /\ UNCHANGED <<pc, points, result, dfLocals, dfIndex, dfCounts, dfDirtyIds, dfBasePoints,
                 routeVars, countVars, tuneVars, sampleVars, gridVars, tileVars>>

(* lines 204-209, and lines 94-104 of the call at line 211 *)
DfSpacing ==
  /\ pc = "df_sort"
  /\ dfCursor > Len(points)
  /\ LET baseSpacingRaw == estimateBaseSpacing(SubSeq(dfSorted, 1, dfLocals.localCount))
         baseSpacing == IF baseSpacingRaw > 0 THEN baseSpacingRaw ELSE DefaultBaseSpacing
         dirtySupportRadius == baseSpacing * DirtySupportFactor
     IN /\ dfLocals' = [cappedWaypoints |-> dfLocals.cappedWaypoints,
                        localCount |-> dfLocals.localCount,
                        baseSpacing |-> baseSpacing,
                        dirtySupportRadius |-> dirtySupportRadius]
        /\ dfIndex' = buildSpatialIndex(points, dirtySupportRadius)
  /\ dfCounts' = EmptyMap
  /\ dfCursor' = 1
  /\ pc' = "df_count"
  /\ UNCHANGED <<points, result, dfSorted, dfDirtyIds, dfBasePoints,
                 routeVars, countVars, tuneVars, sampleVars, gridVars, tileVars>>

(* lines 106-122 of the call at line 211: the count of the next point *)
DfCount ==
  /\ pc = "df_count"
  /\ dfCursor <= Len(points)
  /\ dfCounts' = countStep(dfCounts, dfIndex, points[dfCursor], dfLocals.dirtySupportRadius)
  /\ dfCursor' = dfCursor + 1
  /\ UNCHANGED <<pc, points, result, dfSorted, dfLocals, dfIndex, dfDirtyIds, dfBasePoints,
                 routeVars, countVars, tuneVars, sampleVars, gridVars, tileVars>>

(* lines 125 and 211-212: the counts are returned *)
DfCounted ==
  /\ pc = "df_count"
  /\ dfCursor > Len(points)
  /\ dfDirtyIds' = {}
  /\ dfCursor' = 1
  /\ pc' = "df_mark"
  /\ UNCHANGED <<points, result, dfSorted, dfLocals, dfIndex, dfCounts, dfBasePoints,
                 routeVars, countVars, tuneVars, sampleVars, gridVars, tileVars>>

(* lines 213-216: the next point is looked up *)
DfMark ==
  /\ pc = "df_mark"
  /\ dfCursor <= Len(points)
  /\ dfDirtyIds' =
       IF isDirty(MapGetOr(dfCounts, points[dfCursor].id, 1))
       THEN dfDirtyIds \cup {points[dfCursor].id}
       ELSE dfDirtyIds
  /\ dfCursor' = dfCursor + 1
  /\ UNCHANGED <<pc, points, result, dfSorted, dfLocals, dfIndex, dfCounts, dfBasePoints,
                 routeVars, countVars, tuneVars, sampleVars, gridVars, tileVars>>

(* lines 217-218: control is at the loops *)
DfChoose ==
  /\ pc = "df_mark"
  /\ dfCursor > Len(points)
  /\ dfBasePoints' =
       basePointsOf(points, SelectSeq(points, LAMBDA p : ~(p.id \in dfDirtyIds)),
                    dfLocals.cappedWaypoints)
  /\ pc' = "df_loops"
  /\ UNCHANGED <<points, result, dfCursor, dfSorted, dfLocals, dfIndex, dfCounts, dfDirtyIds,
                 routeVars, countVars, tuneVars, sampleVars, gridVars, tileVars>>

NextDirty == DfCall \/ DfSort \/ DfSpacing \/ DfCount \/ DfCounted \/ DfMark \/ DfChoose

SpecDirty == InitDirty /\ [][NextDirty]_vars

----------------------------------------------------------------------------
(* createAutoRoute, lines 1328-1340: the points handed to the tuner.  The call
   is past the early returns of lines 1313-1320, so there is at least one
   point *)

TuneLimit == 8000

(* mutant: the stride is rounded down *)
strideOf_Floor(count, limit) == count \div limit

(* line 1332 *)
strideOf(count, limit) == Ceil(count, limit)

(* mutant: a list of up to twice the limit goes as it is *)
overLimit_Twice(count, limit) == count > 2 * limit

(* line 1331 *)
overLimit(count, limit) == count > limit

(* the numbers of points: below, at and above the limit and its multiples *)
SampleCounts == {1, 5, 7999, 8000, 8001, 16000, 16001, 24001}

InitSample ==
  /\ pc = "cr_tune"
  /\ crCount \in SampleCounts
  /\ crStride = 0
  /\ crIndex = 0
  /\ crSampled = <<>>
  /\ crTunePoints = Null
  /\ gItems = <<>>
  /\ gCellSize = 0
  /\ gIndex = Null
  /\ gArgs = Null
  /\ gFound = Null
  /\ gClear = Null
  /\ IdleDirty
  /\ IdleTiles
  /\ points = <<>>
  /\ result = Null
  /\ denseIds = {}
  /\ settings = Null
  /\ env = Null
  /\ walk = 0
  /\ route = <<>>
  /\ visited = {}
  /\ bestRoute = <<>>
  /\ bestCost = 0
  /\ ncRadius = 0
  /\ ncIndex = Null
  /\ ncCursor = 0
  /\ ncCounts = EmptyMap
  /\ tnArgs = Null
  /\ tn = Null
  /\ tnLoop = Null
  /\ tnCluster = 0
  /\ tnStep = 0
  /\ tnBest = Null
  /\ tnTrials = 0

(* lines 1329-1333: few enough points go as they are *)
CrBegin ==
  /\ pc = "cr_tune"
  /\ IF overLimit(crCount, TuneLimit)
     THEN /\ crStride' = strideOf(crCount, TuneLimit)
          /\ crSampled' = <<>>
          /\ crIndex' = 0
          /\ pc' = "cr_loop"
          /\ UNCHANGED crTunePoints
     ELSE /\ crTunePoints' = [i \in 1..crCount |-> i - 1]
          /\ pc' = "done"
          /\ UNCHANGED <<crStride, crSampled, crIndex>>
  /\ UNCHANGED <<crCount, points, result, routeVars, countVars, tuneVars, gridVars, dirtyVars, tileVars>>

(* lines 1334-1336: one iteration of the for loop *)
CrPush ==
  /\ pc = "cr_loop"
  /\ crIndex < crCount
  /\ crSampled' = Append(crSampled, crIndex)
  /\ crIndex' = crIndex + crStride
  /\ UNCHANGED <<pc, crCount, crStride, crTunePoints, points, result,
                 routeVars, countVars, tuneVars, gridVars, dirtyVars, tileVars>>

(* lines 1334 and 1337-1340: the loop ends and the sample is handed over *)
CrEnd ==
  /\ pc = "cr_loop"
  /\ ~(crIndex < crCount)
  /\ crTunePoints' = crSampled
  /\ pc' = "done"
  /\ UNCHANGED <<crCount, crStride, crIndex, crSampled, points, result,
                 routeVars, countVars, tuneVars, gridVars, dirtyVars, tileVars>>

NextSample == CrBegin \/ CrPush \/ CrEnd

SpecSample == InitSample /\ [][NextSample]_vars

----------------------------------------------------------------------------
(* buildSpatialIndex, queryPointsWithin and segmentAvoidsDense on a grid of
   their own: any cell size, any center and radius, any segment *)

MaxGridItems == 2

GridPlaces == (-2..2) \X (-1..1)

(* the places a query is centered at and a segment ends at *)
XYs == { [x |-> c[1], y |-> c[2]] : c \in GridPlaces }

(* the places a segment starts at: the left half, the rest is its mirror *)
SegmentStarts == { a \in XYs : a.x <= 0 }

(* cell sizes: one that Math.max lifts to 1e-6, and 1, 2, 3 *)
GridCellSizes == {0, 1, 2, 3}

InitGrid ==
  /\ pc = "g_build"
  /\ \E n \in 0..MaxGridItems : \E f \in [1..n -> GridPlaces] :
       gItems = [i \in 1..n |-> [id |-> i, x |-> f[i][1], y |-> f[i][2]]]
  /\ gCellSize \in GridCellSizes
  /\ gIndex = Null
  /\ gArgs = Null
  /\ gFound = Null
  /\ gClear = Null
  /\ IdleDirty
  /\ IdleTiles
  /\ points = <<>>
  /\ result = Null
  /\ denseIds = {}
  /\ settings = Null
  /\ env = Null
  /\ walk = 0
  /\ route = <<>>
  /\ visited = {}
  /\ bestRoute = <<>>
  /\ bestCost = 0
  /\ ncRadius = 0
  /\ ncIndex = Null
  /\ ncCursor = 0
  /\ ncCounts = EmptyMap
  /\ tnArgs = Null
  /\ tn = Null
  /\ tnLoop = Null
  /\ tnCluster = 0
  /\ tnStep = 0
  /\ tnBest = Null
  /\ tnTrials = 0
  /\ crCount = 0
  /\ crStride = 0
  /\ crIndex = 0
  /\ crSampled = <<>>
  /\ crTunePoints = Null

(* lines 32-47 *)
GBuild ==
  /\ pc = "g_build"
  /\ gIndex' = buildSpatialIndex(gItems, gCellSize)
  /\ pc' = "g_ready"
  /\ UNCHANGED <<gItems, gCellSize, gArgs, gFound, gClear, points, result,
                 routeVars, countVars, tuneVars, sampleVars, dirtyVars, tileVars>>

(* lines 49-73: a query of the grid *)
GQuery ==
  /\ pc = "g_ready"
  /\ \E center \in XYs, radius \in -1..3 :
       /\ gArgs' = [center |-> center, radius |-> radius]
       /\ gFound' = queryPointsWithin(gIndex, center, radius)
  /\ pc' = "done"
  /\ UNCHANGED <<gItems, gCellSize, gIndex, gClear, points, result,
                 routeVars, countVars, tuneVars, sampleVars, dirtyVars, tileVars>>

(* lines 323-357: a segment against the grid, or against no grid *)
GSegment ==
  /\ pc = "g_ready"
  /\ \E a \in SegmentStarts, b \in XYs, avoidRadius \in 0..2, denseIndex \in {gIndex, Null} :
       /\ gArgs' = [a |-> a, b |-> b, denseIndex |-> denseIndex,
                    avoidRadius |-> avoidRadius]
       /\ gClear' = segmentAvoidsDense(a, b, denseIndex, avoidRadius)
  /\ pc' = "done"
  /\ UNCHANGED <<gItems, gCellSize, gIndex, gFound, points, result,
                 routeVars, countVars, tuneVars, sampleVars, dirtyVars, tileVars>>

NextGrid == GBuild \/ GQuery \/ GSegment

SpecGrid == InitGrid /\ [][NextGrid]_vars

----------------------------------------------------------------------------
(* The tile script (vite.config.js): buildMap and runWithConcurrency.  The
   script runs on one thread: a step is what runs between two awaits.  A task
   is named by its tile <<x, y>>; the image work of lines 82 and 109-113 is
   left to sharp, and of its outcome only success or rejection is kept.  The
   log lines and nextLogAt are left out *)

TILE_SIZE == 512

RECURSIVE Pow2(_)
Pow2(n) == IF n <= 0 THEN 1 ELSE 2 * Pow2(n - 1)

(* line 27 *)
concurrencyOf(cpus) == Max(2, Min(12, cpus))

RECURSIVE ZoomUp(_, _)
ZoomUp(maxDim, zoom) ==
  IF TILE_SIZE * Pow2(zoom) >= maxDim THEN zoom ELSE ZoomUp(maxDim, zoom + 1)

RECURSIVE ZoomDown(_, _)
ZoomDown(maxDim, zoom) ==
  IF maxDim * Pow2(zoom + 1) > TILE_SIZE THEN -zoom ELSE ZoomDown(maxDim, zoom + 1)

(* line 58: Math.ceil(Math.log2(maxDim / TILE_SIZE)), the least zoom, negative
   or not, at which a tile side times 2^zoom covers maxDim *)
maxZoomOf(maxDim) ==
  IF maxDim > TILE_SIZE THEN ZoomUp(maxDim, 0) ELSE ZoomDown(maxDim, 0)

(* lines 64-66 and 78-80: a side of the image at level zoom *)
levelSide(side, zoom, maxZoom) == Max(1, Ceil(side, Pow2(maxZoom - zoom)))

(* lines 87-89 *)
colsOf(map, zoom, maxZoom) == Ceil(levelSide(map.width, zoom, maxZoom), TILE_SIZE)
rowsOf(map, zoom, maxZoom) == Ceil(levelSide(map.height, zoom, maxZoom), TILE_SIZE)

(* lines 62-68 *)
RECURSIVE totalTilesFrom(_, _, _)
totalTilesFrom(map, zoom, maxZoom) ==
  IF zoom > maxZoom THEN 0
  ELSE colsOf(map, zoom, maxZoom) * rowsOf(map, zoom, maxZoom)
         + totalTilesFrom(map, zoom + 1, maxZoom)

(* lines 100-128: the tasks in the order they are pushed, row after row *)
tasksOf(cols, rows) ==
  [i \in 1..(cols * rows) |-> <<(i - 1) % cols, (i - 1) \div cols>>]

(* mutant: one worker for each task *)
workersOf_PerTask(limit, count) == count

(* line 37: the number of workers *)
workersOf(limit, count) == Min(limit, count)

(* the sides an image may have, 0 for a side the metadata does not give, and
   the processors of the machine *)
MapSides == {0, 200, 512, 700, 1100}
MapHeights == {0, 100, 513}
CpuCounts == {1, 3, 16}

InitTiles ==
  /\ pc = "bm_call"
  /\ tlMap \in [width : MapSides, height : MapHeights]
  /\ tlConcurrency \in { concurrencyOf(n) : n \in CpuCounts }
  /\ tlMaxZoom = 0
  /\ tlZ = 0
  /\ tlTotalTiles = 0
  /\ tlGeneratedTiles = 0
  /\ tlLevelDone = 0
  /\ tlLevelTotal = 0
  /\ tlTasks = <<>>
  /\ tlWorkers = <<>>
  /\ tlStarted = <<>>
  /\ IdleDirty
  /\ points = <<>>
  /\ result = Null
  /\ denseIds = {}
  /\ settings = Null
  /\ env = Null
  /\ walk = 0
  /\ route = <<>>
  /\ visited = {}
  /\ bestRoute = <<>>
  /\ bestCost = 0
  /\ ncRadius = 0
  /\ ncIndex = Null
  /\ ncCursor = 0
  /\ ncCounts = EmptyMap
  /\ tnArgs = Null
  /\ tn = Null
  /\ tnLoop = Null
  /\ tnCluster = 0
  /\ tnStep = 0
  /\ tnBest = Null
  /\ tnTrials = 0
  /\ crCount = 0
  /\ crStride = 0
  /\ crIndex = 0
  /\ crSampled = <<>>
  /\ crTunePoints = Null
  /\ gItems = <<>>
  /\ gCellSize = 0
  /\ gIndex = Null
  /\ gArgs = Null
  /\ gFound = Null
  /\ gClear = Null

(* lines 48-74; the throw of line 54 ends the script at line 161 *)
BmCall ==
  /\ pc = "bm_call"
  /\ IF tlMap.width = 0 \/ tlMap.height = 0
     THEN /\ pc' = "exited"
          /\ UNCHANGED <<tlMaxZoom, tlTotalTiles>>
     ELSE /\ tlMaxZoom' = maxZoomOf(Max(tlMap.width, tlMap.height))
          /\ tlTotalTiles' =
               totalTilesFrom(tlMap, 0, maxZoomOf(Max(tlMap.width, tlMap.height)))
          /\ pc' = "bm_level"
  /\ tlGeneratedTiles' = 0
  /\ tlZ' = 0
  /\ UNCHANGED <<tlMap, tlConcurrency, tlLevelDone, tlLevelTotal, tlTasks, tlWorkers,
                 tlStarted, points, result, routeVars, countVars, tuneVars, sampleVars,
                 gridVars, dirtyVars>>

(* lines 76-130: the tasks of the level, and the call of runWithConcurrency *)
BmLevel ==
  /\ pc = "bm_level"
  /\ tlZ <= tlMaxZoom
  /\ LET cols == colsOf(tlMap, tlZ, tlMaxZoom)
         rows == rowsOf(tlMap, tlZ, tlMaxZoom)
     IN /\ tlLevelTotal' = cols * rows
        /\ tlTasks' = tasksOf(cols, rows)
  /\ tlLevelDone' = 0
  /\ tlWorkers' = <<>>
  /\ tlStarted' = <<>>
  /\ pc' = "rw_spawn"
  /\ UNCHANGED <<tlMap, tlConcurrency, tlMaxZoom, tlZ, tlTotalTiles, tlGeneratedTiles,
                 points, result, routeVars, countVars, tuneVars, sampleVars, gridVars,
                 dirtyVars>>

(* lines 38-41: a worker, from the test of its loop to its next await or to
   its return; task() runs up to the await of line 109 *)
workerRuns(w) ==
  IF Len(tlTasks) > 0
  THEN /\ tlTasks' = SubSeq(tlTasks, 1, Len(tlTasks) - 1)
       /\ tlStarted' = Append(tlStarted, tlTasks[Len(tlTasks)])
       /\ tlWorkers' =
            [i \in 1..Max(w, Len(tlWorkers)) |->
               IF i = w THEN [at |-> "io", task |-> tlTasks[Len(tlTasks)]]
               ELSE tlWorkers[i]]
  ELSE /\ tlWorkers' =
            [i \in 1..Max(w, Len(tlWorkers)) |->
               IF i = w THEN [at |-> "returned", task |-> Null] ELSE tlWorkers[i]]
       /\ UNCHANGED <<tlTasks, tlStarted>>

(* line 37: the next worker is made and runs to its first await *)
RwSpawn ==
  /\ pc = "rw_spawn"
  /\ Len(tlWorkers) < workersOf(tlConcurrency, tlLevelTotal)
  /\ workerRuns(Len(tlWorkers) + 1)
  /\ UNCHANGED <<pc, tlMap, tlConcurrency, tlMaxZoom, tlZ, tlTotalTiles, tlGeneratedTiles,
                 tlLevelDone, tlLevelTotal, points, result, routeVars, countVars, tuneVars,
                 sampleVars, gridVars, dirtyVars>>

(* line 44: the workers are made, runWithConcurrency awaits them *)
RwAwait ==
  /\ pc = "rw_spawn"
  /\ Len(tlWorkers) >= workersOf(tlConcurrency, tlLevelTotal)
  /\ pc' = "rw_await"
  /\ UNCHANGED <<tileVars, points, result, routeVars, countVars, tuneVars, sampleVars,
                 gridVars, dirtyVars>>

(* lines 109-113: the tile of a task is written *)
TlWritten ==
  /\ pc = "rw_await"
  /\ \E w \in DOMAIN tlWorkers :
       /\ tlWorkers[w].at = "io"
       /\ tlWorkers' = [tlWorkers EXCEPT ![w].at = "written"]
  /\ UNCHANGED <<pc, tlMap, tlConcurrency, tlMaxZoom, tlZ, tlTotalTiles, tlGeneratedTiles,
                 tlLevelDone, tlLevelTotal, tlTasks, tlStarted, points, result, routeVars,
                 countVars, tuneVars, sampleVars, gridVars, dirtyVars>>

(* lines 109-113, 41, 44, 130, 150 and 159-162: the tile of a task is not
   written; the rejection passes through the worker, Promise.all, buildMap
   and main, and the script exits *)
TlFailed ==
  /\ pc = "rw_await"
  /\ \E w \in DOMAIN tlWorkers : tlWorkers[w].at = "io"
  /\ pc' = "exited"
  /\ UNCHANGED <<tileVars, points, result, routeVars, countVars, tuneVars, sampleVars,
                 gridVars, dirtyVars>>

(* lines 115-125: the task goes on after its await and ends *)
TlCounted ==
  /\ pc = "rw_await"
  /\ \E w \in DOMAIN tlWorkers :
       /\ tlWorkers[w].at = "written"
       /\ tlWorkers' = [tlWorkers EXCEPT ![w].at = "settled"]
  /\ tlLevelDone' = tlLevelDone + 1
  /\ tlGeneratedTiles' = tlGeneratedTiles + 1
  /\ UNCHANGED <<pc, tlMap, tlConcurrency, tlMaxZoom, tlZ, tlTotalTiles, tlLevelTotal,
                 tlTasks, tlStarted, points, result, routeVars, countVars, tuneVars,
                 sampleVars, gridVars, dirtyVars>>

(* lines 41 and 38-40: a worker goes on after its await *)
RwResume ==
  /\ pc = "rw_await"
  /\ \E w \in DOMAIN tlWorkers :
       /\ tlWorkers[w].at = "settled"
       /\ workerRuns(w)
  /\ UNCHANGED <<pc, tlMap, tlConcurrency, tlMaxZoom, tlZ, tlTotalTiles, tlGeneratedTiles,
                 tlLevelDone, tlLevelTotal, points, result, routeVars, countVars, tuneVars,
                 sampleVars, gridVars, dirtyVars>>

(* lines 44-45 and 130-132: every worker has returned, the promise of
   runWithConcurrency resolves and buildMap goes to the next level *)
RwResolve ==
  /\ pc = "rw_await"
  /\ \A w \in DOMAIN tlWorkers : tlWorkers[w].at = "returned"
  /\ tlZ' = tlZ + 1
  /\ pc' = "bm_level"
  /\ UNCHANGED <<tlMap, tlConcurrency, tlMaxZoom, tlTotalTiles, tlGeneratedTiles,
                 tlLevelDone, tlLevelTotal, tlTasks, tlWorkers, tlStarted, points, result,
                 routeVars, countVars, tuneVars, sampleVars, gridVars, dirtyVars>>

(* lines 134-143 *)
BmReturn ==
  /\ pc = "bm_level"
  /\ tlZ > tlMaxZoom
  /\ result' = [width |-> tlMap.width, height |-> tlMap.height, tileSize |-> TILE_SIZE,
                maxZoom |-> tlMaxZoom]
  /\ pc' = "done"
  /\ UNCHANGED <<tileVars, points, routeVars, countVars, tuneVars, sampleVars, gridVars,
                 dirtyVars>>

NextTiles ==
  \/ BmCall \/ BmLevel \/ RwSpawn \/ RwAwait \/ TlWritten \/ TlFailed \/ TlCounted
  \/ RwResume \/ RwResolve \/ BmReturn

SpecTiles == InitTiles /\ [][NextTiles]_vars

----------------------------------------------------------------------------
(* The three functions side by side: a call of any one of them *)

InitAll == Init \/ InitCounts \/ InitTune

NextAll == Next \/ NextCounts \/ NextTune

SpecAll == InitAll /\ [][NextAll]_vars

----------------------------------------------------------------------------
(* Properties of generateAutoRoute *)

(* every route the call holds: the walk in progress, the best so far, the result *)
RoutesHeld ==
  {route, bestRoute} \cup (IF Done THEN {result.route} ELSE {})

Pairs(r) == { i \in DOMAIN r : i + 1 \in DOMAIN r }

(* C1: when settings.maxStepDistance > 0, consecutive waypoints are at planar
   squared distance at most maxStepDistance^2, after every extension step of
   every greedy walk and in the route returned *)
C1_StepsWithinMaxStep ==
  settings.maxStepDistance > 0 =>
    \A r \in RoutesHeld : \A i \in Pairs(r) :
      dist2(r[i], r[i + 1]) <= settings.maxStepDistance * settings.maxStepDistance

(* a walk of three waypoints was returned under a step bound that leaves a
   safe point out of reach of the route's end *)
C1_Witness ==
  /\ Done
  /\ settings.maxStepDistance > 0
  /\ Len(result.route) >= 3
  /\ \E i \in DOMAIN env.safeInArea :
       dist2(env.safeInArea[i], result.route[Len(result.route)])
         > settings.maxStepDistance * settings.maxStepDistance

DistinctIds(pts) == \A i, j \in DOMAIN pts : pts[i].id = pts[j].id => i = j

(* C2: for points of pairwise distinct ids no route holds an id twice, and
   during a walk visited is exactly the set of ids of the partial route *)
C2_NoDuplicateIds ==
  DistinctIds(points) =>
    /\ \A r \in RoutesHeld : DistinctIds(r)
    /\ pc = "walk" => visited = IdsOf(route)

(* a walk was extended past a point that was within reach again *)
C2_Witness ==
  /\ pc = "walk"
  /\ Len(route) >= 3
  /\ DistinctIds(points)
  /\ \E i \in DOMAIN route :
       /\ i < Len(route) - 1
       /\ dist2(route[i], route[Len(route)]) <= env.maxStep2

(* C3: for settings.maxWaypoints >= 0 the route returned is no longer than
   settings.maxWaypoints and no longer than stats.safeInArea *)
C3_RouteLengthBounds ==
  (Done /\ settings.maxWaypoints >= 0) =>
    /\ Len(result.route) * WaypointScale <= settings.maxWaypoints
    /\ Len(result.route) <= result.stats.safeInArea

(* a non-integer maxWaypoints cut the route short of the safe points *)
C3_Witness ==
  /\ Done
  /\ settings.maxWaypoints > 0
  /\ settings.maxWaypoints % WaypointScale # 0
  /\ Len(result.route) >= 2
  /\ Len(result.route) = Floor(settings.maxWaypoints)
  /\ Len(result.route) < result.stats.safeInArea

WithinArea(p) ==
  settings.maxAreaRadius > 0 =>
    dist2(p, settings.center) <= settings.maxAreaRadius * settings.maxAreaRadius

(* C4: every waypoint of a route, its start included, is an input point whose
   id is not in denseIds and which lies within maxAreaRadius of the center
   when maxAreaRadius > 0 *)
C4_WaypointsAreSafeInArea ==
  \A r \in RoutesHeld : \A i \in DOMAIN r :
    /\ \E j \in DOMAIN points : points[j] = r[i]
    /\ ~(r[i].id \in denseIds)
    /\ WithinArea(r[i])

(* a route of two waypoints was returned although the input also holds a
   dense point within the area and a point outside the area that is not dense *)
C4_Witness ==
  /\ Done
  /\ Len(result.route) >= 2
  /\ \E j \in DOMAIN points : points[j].id \in denseIds /\ WithinArea(points[j])
  /\ \E j \in DOMAIN points : ~(points[j].id \in denseIds) /\ ~WithinArea(points[j])

TooClose(p, a, b, r) ==
  LET d2 == dist2PointToSegment(p, a, b)
  IN d2.n <= r * r * d2.d

(* C5: when settings.avoidDenseTravelRadius > 0, every input point whose id is
   in denseIds, wherever it lies, is farther than avoidDenseTravelRadius from
   every segment between consecutive waypoints *)
C5_SegmentsAvoidDense ==
  settings.avoidDenseTravelRadius > 0 =>
    \A r \in RoutesHeld : \A i \in Pairs(r) : \A j \in DOMAIN points :
      points[j].id \in denseIds =>
        ~TooClose(points[j], r[i], r[i + 1], settings.avoidDenseTravelRadius)

(* a route was returned although a dense point outside the area lies within
   the avoidance radius of the segment between two safe points of the area *)
C5_Witness ==
  /\ Done
  /\ settings.avoidDenseTravelRadius > 0
  /\ settings.maxAreaRadius > 0
  /\ Len(result.route) >= 2
  /\ \E j \in DOMAIN points :
       /\ points[j].id \in denseIds
       /\ ~WithinArea(points[j])
       /\ \E a, b \in DOMAIN env.safeInArea :
            /\ a # b
            /\ TooClose(points[j], env.safeInArea[a], env.safeInArea[b],
                        settings.avoidDenseTravelRadius)

AreaIdx == { j \in DOMAIN points : WithinArea(points[j]) }
DenseAreaIdx == { j \in AreaIdx : points[j].id \in denseIds }
SafeAreaIdx == { j \in AreaIdx : ~(points[j].id \in denseIds) }

(* C8: when floor(maxWaypoints) < 1 or no input point is safe and in the area,
   the route returned is empty and the stats are those of the input: total,
   inArea, denseInArea and safeInArea count the points, picked is 0 *)
C8_EmptyRouteKeepsStats ==
  (Done /\ (Floor(settings.maxWaypoints) < 1 \/ SafeAreaIdx = {})) =>
    /\ result.route = <<>>
    /\ result.stats = [total |-> Len(points),
                       inArea |-> Cardinality(AreaIdx),
                       denseInArea |-> Cardinality(DenseAreaIdx),
                       safeInArea |-> Cardinality(SafeAreaIdx),
                       picked |-> 0]

(* the call returned for a maxWaypoints strictly between 0 and 1 although safe
   points were in the area, beside dense ones and points outside the area *)
C8_Witness ==
  /\ Done
  /\ settings.maxWaypoints > 0
  /\ Floor(settings.maxWaypoints) < 1
  /\ SafeAreaIdx # {}
  /\ DenseAreaIdx # {}
  /\ Cardinality(AreaIdx) < Len(points)

(* C13: the stats returned, on the early return as on the normal one, are
   total = |points|, inArea = the number of points within the area,
   denseInArea = the number of those whose id is in denseIds,
   denseInArea + safeInArea = inArea, picked = the length of the route, and
   inArea <= total *)
C13_StatsConsistent ==
  Done =>
    /\ result.stats.total = Len(points)
    /\ result.stats.inArea = Cardinality(AreaIdx)
    /\ result.stats.denseInArea = Cardinality(DenseAreaIdx)
    /\ result.stats.denseInArea + result.stats.safeInArea = result.stats.inArea
    /\ result.stats.picked = Len(result.route)
    /\ result.stats.inArea <= result.stats.total

(* a route of two waypoints was returned for an input with a dense point in
   the area and a dense point outside it *)
C13_Witness ==
  /\ Done
  /\ Len(result.route) >= 2
  /\ DenseAreaIdx # {}
  /\ \E j \in DOMAIN points : points[j].id \in denseIds /\ ~WithinArea(points[j])

(* the points held by a spatial index *)
IndexedPoints(index) ==
  IF index = Null THEN {}
  ELSE UNION { { index.cells[k][i] : i \in DOMAIN index.cells[k] } : k \in DOMAIN index.cells }

(* C14: when settings.maxAreaRadius <= 0 every input point is in the area
   (inArea = total) and, when an avoidance radius is set, the index of dense
   points used for travel holds every input point whose id is in denseIds *)
C14_NonPositiveAreaIsUnbounded ==
  settings.maxAreaRadius <= 0 =>
    /\ env # Null =>
         /\ env.inAreaLen = Len(points)
         /\ settings.avoidDenseTravelRadius > 0 =>
              IndexedPoints(env.denseIndex)
                = { points[j] : j \in { i \in DOMAIN points : points[i].id \in denseIds } }
    /\ Done =>
         /\ result.stats.inArea = Len(points)
         /\ result.stats.inArea = result.stats.total

(* a route of two waypoints was returned under a negative maxAreaRadius and an
   avoidance radius, with a dense point farther from the center than the two
   radii taken together *)
C14_Witness ==
  /\ Done
  /\ settings.maxAreaRadius < 0
  /\ settings.avoidDenseTravelRadius > 0
  /\ Len(result.route) >= 2
  /\ \E j \in DOMAIN points :
       /\ points[j].id \in denseIds
       /\ dist2(settings.center, points[j])
            > (settings.avoidDenseTravelRadius - settings.maxAreaRadius)
                * (settings.avoidDenseTravelRadius - settings.maxAreaRadius)

----------------------------------------------------------------------------
(* Properties of computeNeighborCounts *)

WithinOf(i, r) == { j \in DOMAIN points : dist2(points[j], points[i]) <= r * r }

(* C6: for points of distinct ids and a radius > 0 the map returned gives each
   point's id the number of input points, itself included, within the radius:
   the all-pairs count *)
C6_CountsMatchBruteForce ==
  (Done /\ ncRadius > 0 /\ DistinctIds(points)) =>
    /\ DOMAIN result = IdsOf(points)
    /\ \A i \in DOMAIN points :
         /\ result[points[i].id] = Cardinality(WithinOf(i, ncRadius))
         /\ result[points[i].id] >= 1

(* counted: a point with three points within the radius, one of them in another
   cell of the grid, and a point of a neighbouring cell beyond the radius *)
C6_Witness ==
  /\ Done
  /\ ncRadius > 0
  /\ DistinctIds(points)
  /\ \E i \in DOMAIN points :
       /\ result[points[i].id] >= 3
       /\ \E j \in WithinOf(i, ncRadius) :
            points[j].x \div ncRadius # points[i].x \div ncRadius
       /\ \E j \in DOMAIN points \ WithinOf(i, ncRadius) :
            Abs((points[j].x \div ncRadius) - (points[i].x \div ncRadius)) <= 1

(* C7: for a radius <= 0 the map returned gives every input id the count 1 and
   has no other key *)
C7_NonPositiveRadiusCountsOne ==
  (Done /\ ~(ncRadius > 0)) =>
    /\ DOMAIN result = IdsOf(points)
    /\ \A k \in DOMAIN result : result[k] = 1

(* returned for a negative radius and two points at one place *)
C7_Witness ==
  /\ Done
  /\ ncRadius < 0
  /\ \E i, j \in DOMAIN points :
       i # j /\ dist2(points[i], points[j]) = 0 /\ points[i].id # points[j].id

----------------------------------------------------------------------------
(* Properties of tuneAutoRouteParams *)

(* the point set is empty or floor(maxWaypoints) < 1 *)
DegenerateTune ==
  Len(points) = 0 \/ tnArgs.maxWaypoints < WaypointScale

(* C9: when the point set is empty or floor(maxWaypoints) < 1 the tuner goes
   from its call straight to its return, returns null, and has made no call
   of generateAutoRoute, whatever the center *)
C9_DegenerateTuneReturnsNull ==
  DegenerateTune =>
    /\ pc \in {"tn_call", "done"}
    /\ result = Null
    /\ tnTrials = 0
    /\ tnBest = Null

(* a returned call on a non-empty point set with maxWaypoints = 1/WaypointScale,
   above 0 and of floor 0 *)
C9_Witness ==
  /\ Done
  /\ Len(points) > 0
  /\ tnArgs.maxWaypoints > 0
  /\ tnArgs.maxWaypoints < WaypointScale
  /\ result = Null

(* the base points within radius r of base point i, by all pairs *)
BaseWithin(i, r) ==
  { j \in DOMAIN tn.basePoints : dist2(tn.basePoints[i], tn.basePoints[j]) <= r * r }

(* at every candidate cluster radius every base point has at least three base
   points, itself among them, within the radius *)
AllDenseAtEveryRadius ==
  \A k \in DOMAIN tn.clusterCandidates :
    \A i \in DOMAIN tn.basePoints :
      Cardinality(BaseWithin(i, tn.clusterCandidates[k])) >= 3

(* C10 as stated: a returned call on a non-empty point set with
   floor(maxWaypoints) >= 1 has a non-null result *)
C10_NullOnlyWhenDegenerate ==
  (Done /\ ~DegenerateTune) => result # Null

(* C10: a returned call has a null result exactly when the point set is empty,
   or floor(maxWaypoints) < 1, or every base point is dense at every candidate
   cluster radius; in that last case no trial was made *)
C10_NullIffDegenerateOrAllDense ==
  Done =>
    /\ (result = Null) <=> (DegenerateTune \/ AllDenseAtEveryRadius)
    /\ (result = Null) <=> (tnTrials = 0)

(* a returned call on three or more points, floor(maxWaypoints) >= 1, where
   every cluster radius was skipped and null came back *)
C10_Witness ==
  /\ Done
  /\ ~DegenerateTune
  /\ Len(points) >= 3
  /\ tnCluster > Len(tn.clusterCandidates)
  /\ result = Null

----------------------------------------------------------------------------
(* Properties of generateAutoRoute on the scenes *)

PlacesOf(r) == [i \in DOMAIN r |-> <<r[i].x, r[i].y>>]

IsRowScene ==
  /\ settings = RowSettings
  /\ denseIds = {}
  /\ Len(points) = 4
  /\ DistinctIds(points)
  /\ { PlacesOf(points)[i] : i \in DOMAIN points } = { RowPlaces[k] : k \in 1..4 }

RowForward == << <<0, 0>>, <<10, 0>>, <<20, 0>> >>
RowBackward == << <<20, 0>>, <<10, 0>>, <<0, 0>> >>

(* C11: on the row scene, whatever the input order and the ids, the route
   returned is (0,0),(10,0),(20,0) made of the input points themselves, with
   stats.inArea = 3 and stats.picked = 3; the first walk starts at (10,0) and
   ends after 2 waypoints, the second replaces it, and the third, the same
   row backwards at the same cost, does not replace the second *)
C11_RowSceneRoute ==
  IsRowScene =>
    /\ Done =>
         /\ PlacesOf(result.route) = RowForward
         /\ \A i \in DOMAIN result.route : \E j \in DOMAIN points : points[j] = result.route[i]
         /\ result.stats.inArea = 3
         /\ result.stats.picked = 3
    /\ (pc = "start" /\ walk = 2) =>
         PlacesOf(bestRoute) = << <<10, 0>>, <<0, 0>> >>
    /\ (pc = "start" /\ walk = 3) => PlacesOf(bestRoute) = RowForward
    /\ pc = "return" =>
         /\ PlacesOf(route) = RowBackward
         /\ routeCost(route) = bestCost
         /\ PlacesOf(bestRoute) = RowForward

(* the row scene returned for an input that begins with the far point and
   ends with (0,0), the ids falling along the row *)
C11_Witness ==
  /\ Done
  /\ IsRowScene
  /\ PlacesOf(points)[1] = <<100, 100>>
  /\ PlacesOf(points)[4] = <<0, 0>>
  /\ \A i, j \in DOMAIN points :
       (points[i].y = 0 /\ points[j].y = 0 /\ points[i].x < points[j].x)
         => points[i].id > points[j].id
  /\ Len(result.route) = 3

(* the point of a cluster scene that lies 500 or more from every other point *)
IsFar(i) ==
  \A j \in DOMAIN points : j # i => dist2(points[i], points[j]) >= 500 * 500

IsClusterScene ==
  /\ Len(points) = 6
  /\ DistinctIds(points)
  /\ Cardinality({ i \in DOMAIN points : IsFar(i) }) = 1
  /\ \A i, j \in DOMAIN points :
       (~IsFar(i) /\ ~IsFar(j)) => dist2(points[i], points[j]) <= 10 * 10

(* C12: on a cluster scene computeNeighborCounts at radius 10 gives each of
   the five a count of 3 or more and the far point the count 1; and with the
   five ids as denseIds, floor(maxWaypoints) >= 1 and an area that holds every
   point, the route returned is the far point alone, with picked = 1, for
   every step and avoidance radius *)
C12_ClusterSceneRoute ==
  IsClusterScene =>
    /\ LET counts == computeNeighborCounts(points, 10)
       IN \A i \in DOMAIN points :
            IF IsFar(i) THEN counts[points[i].id] = 1 ELSE counts[points[i].id] >= 3
    /\ ( /\ Done
         /\ denseIds = { points[i].id : i \in { j \in DOMAIN points : ~IsFar(j) } }
         /\ Floor(settings.maxWaypoints) >= 1
         /\ \A i \in DOMAIN points : WithinArea(points[i]) )
       => /\ Len(result.route) = 1
          /\ \E i \in DOMAIN points : IsFar(i) /\ result.route[1] = points[i]
          /\ result.stats.picked = 1

(* a cluster scene returned under a bounded area, a step and an avoidance
   radius that both reach from the far point to the cluster *)
C12_Witness ==
  /\ Done
  /\ IsClusterScene
  /\ settings.maxAreaRadius > 0
  /\ settings.maxStepDistance * settings.maxStepDistance >= 508 * 508 + 6 * 6
  /\ settings.avoidDenseTravelRadius = settings.maxStepDistance
  /\ Floor(settings.maxWaypoints) > 1
  /\ Cardinality(denseIds) = 5
  /\ Len(result.route) = 1

----------------------------------------------------------------------------
(* Properties of the three functions together *)

(* which function the call in hand is of *)
RouteCall == settings # Null
TuneCall == tnArgs # Null
CountsCall == ~RouteCall /\ ~TuneCall

(* the same points at other heights *)
FlatZ(pts) == [i \in DOMAIN pts |-> [pts[i] EXCEPT !.z = 0]]
SteepZ(pts) == [i \in DOMAIN pts |-> [pts[i] EXCEPT !.z = 30 * pts[i].z]]

IdSeq(r) == [i \in DOMAIN r |-> r[i].id]

(* C15: a call on the same points at other heights gives the same result:
   the same counts from computeNeighborCounts, the same sequence of waypoint
   ids and the same stats from generateAutoRoute, the same parameters from
   tuneAutoRouteParams; and each waypoint returned is its input point, z
   included *)
C15_ZNeverMatters ==
  Done =>
    \A alt \in {FlatZ(points), SteepZ(points)} :
      /\ CountsCall => computeNeighborCounts(alt, ncRadius) = result
      /\ RouteCall =>
           LET other == generateAutoRoute(alt, denseIds, settings)
           IN /\ IdSeq(other.route) = IdSeq(result.route)
              /\ other.stats = result.stats
              /\ \A i \in DOMAIN result.route :
                   \E j \in DOMAIN points : points[j] = result.route[i]
              /\ \A i \in DOMAIN other.route :
                   \E j \in DOMAIN alt : alt[j] = other.route[i]
      /\ TuneCall => tuneAutoRouteParams(alt, tnArgs.center, tnArgs.maxWaypoints) = result

(* a route of three waypoints at three different heights was returned *)
C15_Witness ==
  /\ Done
  /\ RouteCall
  /\ Len(result.route) >= 3
  /\ \A i, j \in DOMAIN result.route : i # j => result.route[i].z # result.route[j].z

(* C16: no step of a call changes an argument: points keeps its elements, their
   order and their fields, denseIds its members, and settings, center,
   maxWaypoints and radius their values *)
C16_InputsUnchanged ==
  [][ /\ points' = points
      /\ denseIds' = denseIds
      /\ settings' = settings
      /\ tnArgs' = tnArgs
      /\ ncRadius' = ncRadius ]_vars

(* the tuner returned parameters for points that were not given in the order
   of their distance to the center *)
C16_Witness ==
  /\ Done
  /\ TuneCall
  /\ result # Null
  /\ byDistance(points, tnArgs.center, cappedWaypointsOf(tnArgs.maxWaypoints)) # points

----------------------------------------------------------------------------
(* Termination of generateAutoRoute *)

(* the extensions the walk in hand has made *)
Extensions == Len(route) - 1

(* C17: every call returns; a step within a walk appends one safe point that
   was not visited, a walk makes at most
   min(floor(maxWaypoints), |safeInArea|) - 1 extensions, and at most 13 walks
   are run *)
C17_CallsTerminate ==
  /\ <>Done
  /\ [](pc = "walk" =>
          /\ Extensions >= 0
          /\ Extensions <= Min(Floor(settings.maxWaypoints), Cardinality(SafeAreaIdx)) - 1)
  /\ [](env # Null =>
          /\ Len(env.startCandidates) <= 13
          /\ walk <= Len(env.startCandidates) + 1)
  /\ [][(pc = "walk" /\ pc' = "walk") =>
          /\ Len(route') = Len(route) + 1
          /\ SubSeq(route', 1, Len(route)) = route
          /\ ~(route'[Len(route')].id \in visited)
          /\ \E j \in SafeAreaIdx : points[j] = route'[Len(route')]]_vars

(* a call returned after 13 walks over more than 13 safe points *)
C17_Witness ==
  /\ Done
  /\ RouteCall
  /\ env # Null
  /\ Len(env.safeInArea) > 13
  /\ Len(env.startCandidates) = 13
  /\ walk = 14

----------------------------------------------------------------------------
(* Properties of createAutoRoute's sampling *)

(* the least s with s * 8000 >= crCount *)
LeastStride == (crCount + 7999) \div 8000

(* C18: the list handed to tuneAutoRouteParams never has more than 8000
   elements: above 8000 points it is the points at the indices 0, s, 2s, ...
   below the count, s = ceil(count / 8000), and up to 8000 points it is the
   whole list in its order *)
C18_TunePointsCapped ==
  /\ Len(crSampled) <= 8000
  /\ (Done /\ crCount > 0) =>
       /\ Len(crTunePoints) <= 8000
       /\ crCount > 8000 =>
            /\ \A k \in DOMAIN crTunePoints : crTunePoints[k] = (k - 1) * LeastStride
            /\ Len(crTunePoints) * LeastStride >= crCount
            /\ (Len(crTunePoints) - 1) * LeastStride < crCount
       /\ crCount <= 8000 =>
            /\ Len(crTunePoints) = crCount
            /\ \A k \in DOMAIN crTunePoints : crTunePoints[k] = k - 1

(* 8001 points were sampled at every second index *)
C18_Witness ==
  /\ Done
  /\ crCount = 8001
  /\ crStride = 2
  /\ Len(crTunePoints) = 4001

----------------------------------------------------------------------------
(* Properties of the greedy walk's steps *)

(* the walk so far without its last waypoint, its tip and its visited set *)
Prefix == SubSeq(route, 1, Len(route) - 1)
Tip == route[Len(route) - 1]
Appended == route[Len(route)]

(* b is within one step of a; a step of 0 or less is unbounded *)
WithinStep(a, b) ==
  env.maxStep <= 0 \/ dist2(a, b) <= env.maxStep * env.maxStep

(* the safe in-area points the walk may go to from tip, by the definition alone *)
ValidNext(tip, vis, c) ==
  /\ c.id # tip.id
  /\ c.id \notin vis
  /\ WithinStep(tip, c)
  /\ segmentAvoidsDense(tip, c, env.denseIndex, env.avoidRadius)

(* the unvisited safe points other than c within one step of c *)
ForwardDegree(vis, c) ==
  Cardinality({ i \in DOMAIN env.safeInArea :
                  /\ env.safeInArea[i].id # c.id
                  /\ env.safeInArea[i].id \notin vis
                  /\ WithinStep(c, env.safeInArea[i]) })

KeyOf(tip, vis, c) ==
  [degree |-> ForwardDegree(vis, c),
   local |-> MapGetOr(env.stepNeighborCounts, c.id, 1) - 1,
   stepD2 |-> dist2(tip, c),
   centerD2 |-> dist2(env.center, c)]

(* a comes strictly before b: the first key that differs decides *)
KeyBefore(a, b) ==
  \/ a.degree > b.degree
  \/ /\ a.degree = b.degree
     /\ \/ a.local > b.local
        \/ /\ a.local = b.local
           /\ \/ a.stepD2 < b.stepD2
              \/ /\ a.stepD2 = b.stepD2
                 /\ a.centerD2 < b.centerD2

(* the first place of the point in the order the candidates are gone through *)
PlaceOf(candidates, c) ==
  CHOOSE i \in DOMAIN candidates :
    /\ candidates[i] = c
    /\ \A j \in 1..(i - 1) : candidates[j] # c

(* C19: the waypoint a walk appends is a valid candidate (an unvisited safe
   in-area point other than the tip, within one step of it, the segment to
   it clear of the dense points), no valid candidate comes before it by
   (forward degree descending, local degree descending, squared step
   ascending, squared distance to the center ascending), and among the valid
   candidates equal to it on all four it is the first one gone through *)
C19_AppendedIsBest ==
  (pc = "walk" /\ Len(route) >= 2) =>
    LET vis == IdsOf(Prefix)
        candidates == candidatesOf(env, Tip)
        key == KeyOf(Tip, vis, Appended)
    IN /\ \E i \in DOMAIN env.safeInArea : env.safeInArea[i] = Appended
       /\ ValidNext(Tip, vis, Appended)
       /\ \A i \in DOMAIN env.safeInArea :
            ValidNext(Tip, vis, env.safeInArea[i]) =>
              /\ ~KeyBefore(KeyOf(Tip, vis, env.safeInArea[i]), key)
              /\ \E j \in DOMAIN candidates : candidates[j] = env.safeInArea[i]
       /\ \A j \in DOMAIN candidates :
            (ValidNext(Tip, vis, candidates[j]) /\ KeyOf(Tip, vis, candidates[j]) = key)
              => PlaceOf(candidates, Appended) <= j

(* a walk has just taken one of two valid candidates of equal forward and
   local degree, the nearer one, and one of two equal on all four keys *)
C19_Witness ==
  /\ pc = "walk"
  /\ Len(route) >= 2
  /\ LET vis == IdsOf(Prefix)
         key == KeyOf(Tip, vis, Appended)
     IN /\ \E i \in DOMAIN env.safeInArea :
             LET c == env.safeInArea[i]
                 k == KeyOf(Tip, vis, c)
             IN /\ ValidNext(Tip, vis, c)
                /\ k.degree = key.degree
                /\ k.local = key.local
                /\ k.stepD2 > key.stepD2
        /\ \E i \in DOMAIN env.safeInArea :
             LET c == env.safeInArea[i]
             IN /\ c # Appended
                /\ ValidNext(Tip, vis, c)
                /\ KeyOf(Tip, vis, c) = key

(* the segment a-b is farther than the avoidance radius from every dense point
   of the input; a radius of 0 or less avoids nothing *)
SegmentClear(a, b) ==
  settings.avoidDenseTravelRadius > 0 =>
    \A j \in DOMAIN points :
      points[j].id \in denseIds =>
        ~TooClose(points[j], a, b, settings.avoidDenseTravelRadius)

(* an unvisited safe in-area point within one step of the last waypoint of r,
   the segment to it clear of the dense points *)
CanContinue(r) ==
  \E i \in DOMAIN env.safeInArea :
    LET c == env.safeInArea[i]
    IN /\ c.id \notin IdsOf(r)
       /\ WithinStep(r[Len(r)], c)
       /\ SegmentClear(r[Len(r)], c)

(* the walk r stopped at the limit or where nothing can follow *)
StoppedForCause(r) ==
  \/ Len(r) = Floor(settings.maxWaypoints)
  \/ ~CanContinue(r)

(* C20: the route returned has floor(maxWaypoints) waypoints, or no unvisited
   safe in-area point lies within one step of its last waypoint with the
   segment to it farther than avoidDenseTravelRadius from every dense point;
   so has every walk the call has finished.  A route without waypoints is
   returned only when no walk was run: at a limit below 1 or with no safe
   point in the area *)
C20_StopsOnlyWhenStuck ==
  /\ (Done /\ RouteCall /\ result.route # <<>>) => StoppedForCause(result.route)
  /\ (Done /\ RouteCall /\ result.route = <<>>) =>
       \/ Floor(settings.maxWaypoints) < 1
       \/ env.safeInArea = <<>>
  /\ (pc \in {"start", "return"} /\ walk > 1) => StoppedForCause(route)

(* a route shorter than the limit was returned although safe points of the
   area are left: one of them is too far, to another the way is blocked *)
C20_Witness ==
  /\ Done
  /\ RouteCall
  /\ result.route # <<>>
  /\ Len(result.route) < Floor(settings.maxWaypoints)
  /\ LET r == result.route
     IN /\ \E i \in DOMAIN env.safeInArea :
             /\ env.safeInArea[i].id \notin IdsOf(r)
             /\ ~WithinStep(r[Len(r)], env.safeInArea[i])
        /\ \E i \in DOMAIN env.safeInArea :
             /\ env.safeInArea[i].id \notin IdsOf(r)
             /\ WithinStep(r[Len(r)], env.safeInArea[i])
             /\ ~SegmentClear(r[Len(r)], env.safeInArea[i])

----------------------------------------------------------------------------
(* Properties of the choice among the walks *)

(* the walk from the k-th start candidate *)
WalkFrom(k) == buildGreedyPath(env, env.startCandidates[k])

(* the walk r is strictly better than the walk q: longer, or as long and cheaper *)
WalkBeats(r, q) ==
  \/ Len(r) > Len(q)
  \/ Len(r) = Len(q) /\ routeCost(r) < routeCost(q)

(* C21: the route returned is the walk from one of the start candidates; no
   start candidate's walk is longer, none of the same length costs less (the
   cost is the sum of the squared planar distances of consecutive
   waypoints), and every earlier start candidate's walk is shorter or costs
   more *)
C21_BestWalkReturned ==
  (Done /\ RouteCall /\ ~earlyReturn(env)) =>
    \E j \in DOMAIN env.startCandidates :
      /\ result.route = WalkFrom(j)
      /\ \A k \in DOMAIN env.startCandidates :
           /\ ~WalkBeats(WalkFrom(k), result.route)
           /\ k < j => WalkBeats(result.route, WalkFrom(k))

(* a route was returned that is longer than one start candidate's walk, as
   long as but cheaper than another's, and as long and as cheap as the walk
   of a later start candidate *)
C21_Witness ==
  /\ Done
  /\ RouteCall
  /\ ~earlyReturn(env)
  /\ \E k \in DOMAIN env.startCandidates : Len(WalkFrom(k)) < Len(result.route)
  /\ \E k \in DOMAIN env.startCandidates :
       /\ Len(WalkFrom(k)) = Len(result.route)
       /\ routeCost(WalkFrom(k)) > routeCost(result.route)
  /\ \E j, k \in DOMAIN env.startCandidates :
       /\ j < k
       /\ result.route = WalkFrom(j)
       /\ Len(WalkFrom(k)) = Len(result.route)
       /\ routeCost(WalkFrom(k)) = routeCost(result.route)

----------------------------------------------------------------------------
(* Properties of the start candidates *)

(* the locals of a call that went past the early return *)
Walking == RouteCall /\ env # Null /\ ~earlyReturn(env)

(* the other safe in-area points within one step of p *)
LocalDegree(p) ==
  Cardinality({ i \in DOMAIN env.safeInArea :
                  /\ env.safeInArea[i].id # p.id
                  /\ WithinStep(p, env.safeInArea[i]) })

(* p comes before q in the ranking of the starts *)
RankBefore(p, q) ==
  \/ LocalDegree(p) > LocalDegree(q)
  \/ /\ LocalDegree(p) = LocalDegree(q)
     /\ \/ dist2(env.center, p) < dist2(env.center, q)
        \/ /\ dist2(env.center, p) = dist2(env.center, q)
           /\ p.id < q.id

(* the safe points that come before p in the ranking *)
RankedBefore(p) ==
  { i \in DOMAIN env.safeInArea : RankBefore(env.safeInArea[i], p) }

(* the first of the safe points nearest to the center *)
ClosestSafe ==
  env.safeInArea[CHOOSE i \in DOMAIN env.safeInArea :
    \A j \in DOMAIN env.safeInArea :
      /\ dist2(env.center, env.safeInArea[i]) <= dist2(env.center, env.safeInArea[j])
      /\ j < i => dist2(env.center, env.safeInArea[i]) < dist2(env.center, env.safeInArea[j])]

(* C22: the start candidates are the first min(12, |safeInArea|) safe points
   by (local degree descending, squared distance to the center ascending, id
   ascending), local degree being the number of other safe in-area points
   within one step, and after them the safe point closest to the center when
   it is not one of them; there are between 1 and 13 of them, no two the
   same, and a returned route begins at one of them *)
C22_StartCandidates ==
  Walking =>
    LET starts == env.startCandidates
        top == Min(12, Len(env.safeInArea))
    IN /\ \A i \in 1..top :
            /\ i \in DOMAIN starts
            /\ \E j \in DOMAIN env.safeInArea : env.safeInArea[j] = starts[i]
            /\ Cardinality(RankedBefore(starts[i])) = i - 1
       /\ IF \E i \in 1..top : starts[i] = ClosestSafe
          THEN Len(starts) = top
          ELSE Len(starts) = top + 1 /\ starts[top + 1] = ClosestSafe
       /\ 1 <= Len(starts) /\ Len(starts) <= 13
       /\ \A i, j \in DOMAIN starts : i # j => starts[i] # starts[j]
       /\ Done => \E i \in DOMAIN starts : result.route[1] = starts[i]

(* a route was returned from thirteen start candidates, the last of them the
   point closest to the center, which the ranking left out of its first twelve *)
C22_Witness ==
  /\ Walking
  /\ Done
  /\ Len(env.safeInArea) > 12
  /\ Len(env.startCandidates) = 13
  /\ env.startCandidates[13] = ClosestSafe
  /\ Cardinality(RankedBefore(ClosestSafe)) >= 12

----------------------------------------------------------------------------
(* Properties of the spatial index *)

(* a call of queryPointsWithin, of segmentAvoidsDense has returned *)
GridQuery == pc = "done" /\ "center" \in DOMAIN gArgs
GridSegment == pc = "done" /\ "avoidRadius" \in DOMAIN gArgs

(* how often the item is in the list *)
TimesIn(list, item) == Cardinality({ i \in DOMAIN list : list[i] = item })

(* the cell of the grid the place lies in *)
CellOf(p) == <<toCell(p.x, gIndex.cellSize), toCell(p.y, gIndex.cellSize)>>

(* ceil(radius / cellSize) *)
Rings(radius) == Ceil(radius * gIndex.cellSize.d, gIndex.cellSize.n)

(* C23: a query with radius > 0 returns each indexed item at squared planar
   distance <= radius^2 from the center as often as it is in the list
   indexed and no other item, every item returned lies in a cell at most
   ceil(radius / cellSize) cells from the center's cell in x and in y, and a
   query with radius <= 0 or of a grid without cells returns the empty list *)
C23_QueryIsExact ==
  GridQuery =>
    LET center == gArgs.center
        radius == gArgs.radius
    IN /\ (radius > 0) =>
            /\ \A i \in DOMAIN gItems :
                 TimesIn(gFound, gItems[i]) =
                   IF dist2(gItems[i], center) <= radius * radius
                   THEN TimesIn(gItems, gItems[i]) ELSE 0
            /\ \A i \in DOMAIN gFound :
                 /\ \E j \in DOMAIN gItems : gItems[j] = gFound[i]
                 /\ Abs(CellOf(gFound[i])[1] - CellOf(center)[1]) <= Rings(radius)
                 /\ Abs(CellOf(gFound[i])[2] - CellOf(center)[2]) <= Rings(radius)
       /\ (radius <= 0 \/ DOMAIN gIndex.cells = {}) => gFound = <<>>

(* a query of radius 2 on cells of size 3 returned one item from another cell
   than the center's and left out an item that is farther away *)
C23_Witness ==
  /\ GridQuery
  /\ gArgs.radius = 2
  /\ gCellSize = 3
  /\ \E i \in DOMAIN gFound : CellOf(gFound[i]) # CellOf(gArgs.center)
  /\ \E i \in DOMAIN gItems : TimesIn(gFound, gItems[i]) = 0

(* the point p is within r of the segment a-b: of a when the segment is one
   point or p projects before a, of b when p projects behind b, and of the
   line through a and b otherwise *)
NearSegment(p, a, b, r) ==
  LET abx == b.x - a.x
      aby == b.y - a.y
      len2 == abx * abx + aby * aby
      dot == (p.x - a.x) * abx + (p.y - a.y) * aby
      cross == abx * (p.y - a.y) - aby * (p.x - a.x)
  IN IF len2 = 0 \/ dot <= 0 THEN dist2(p, a) <= r * r
     ELSE IF dot >= len2 THEN dist2(p, b) <= r * r
     ELSE cross * cross <= r * r * len2

(* p projects strictly inside the segment a-b *)
ProjectsInside(p, a, b) ==
  LET abx == b.x - a.x
      aby == b.y - a.y
      dot == (p.x - a.x) * abx + (p.y - a.y) * aby
  IN 0 < dot /\ dot < abx * abx + aby * aby

(* C24: segmentAvoidsDense returns false exactly when avoidRadius > 0, the
   index is present and has a cell, and some indexed point is at squared
   distance <= avoidRadius^2 from the segment a-b, whichever cell it is in;
   the squared distance dist2PointToSegment gives is never more than the one
   to a, to b or to the middle of the segment *)
C24_SegmentCheckIsExact ==
  GridSegment =>
    /\ gClear = ~( /\ gArgs.avoidRadius > 0
                   /\ gArgs.denseIndex # Null
                   /\ gItems # <<>>
                   /\ \E i \in DOMAIN gItems :
                        NearSegment(gItems[i], gArgs.a, gArgs.b, gArgs.avoidRadius) )
    /\ \A i \in DOMAIN gItems :
         LET p == gItems[i]
             d2 == dist2PointToSegment(p, gArgs.a, gArgs.b)
             mx == 2 * p.x - gArgs.a.x - gArgs.b.x
             my == 2 * p.y - gArgs.a.y - gArgs.b.y
         IN /\ d2.n >= 0 /\ d2.d > 0
            /\ d2.n <= dist2(p, gArgs.a) * d2.d
            /\ d2.n <= dist2(p, gArgs.b) * d2.d
            /\ 4 * d2.n <= (mx * mx + my * my) * d2.d

(* a segment was blocked by a point that projects inside it and lies in a
   cell that holds neither end of the segment *)
C24_Witness ==
  /\ GridSegment
  /\ ~gClear
  /\ \E i \in DOMAIN gItems :
       /\ NearSegment(gItems[i], gArgs.a, gArgs.b, gArgs.avoidRadius)
       /\ ProjectsInside(gItems[i], gArgs.a, gArgs.b)
       /\ gItems[i].x # gArgs.a.x /\ gItems[i].y # gArgs.a.y
       /\ CellOf(gItems[i]) # CellOf(gArgs.a)
       /\ CellOf(gItems[i]) # CellOf(gArgs.b)

----------------------------------------------------------------------------
(* Properties of a call without a step distance *)

(* the first place of the point in safeInArea *)
SafePlace(c) == PlaceOf(env.safeInArea, c)

(* C25: with maxStepDistance <= 0 no index of the safe points is built and no
   neighbours are counted; at every extension each valid candidate has the
   forward degree |safeInArea| - |visited| and the local degree 0, and the
   point appended is a valid candidate nearest to the tip, of those the
   nearest to the center, and of those the first in safeInArea; the start
   candidates go by squared distance to the center and then by id *)
C25_UnboundedStep ==
  (Walking /\ settings.maxStepDistance <= 0) =>
    /\ env.safeIndex = Null
    /\ env.stepNeighborCounts = EmptyMap
    /\ ~queriesIndex(env)
    /\ \A i, j \in 1..Min(12, Len(env.safeInArea)) :
         i < j =>
           LET p == env.startCandidates[i]
               q == env.startCandidates[j]
           IN \/ dist2(env.center, p) < dist2(env.center, q)
              \/ dist2(env.center, p) = dist2(env.center, q) /\ p.id < q.id
    /\ (pc = "walk" /\ Len(route) >= 2) =>
         LET vis == IdsOf(Prefix)
         IN /\ ValidNext(Tip, vis, Appended)
            /\ \A i \in DOMAIN env.safeInArea :
                 LET c == env.safeInArea[i]
                 IN ValidNext(Tip, vis, c) =>
                      /\ degreeOf(env, c, vis) = Len(env.safeInArea) - Len(Prefix)
                      /\ MapGetOr(env.stepNeighborCounts, c.id, 1) - 1 = 0
                      /\ dist2(Tip, Appended) <= dist2(Tip, c)
                      /\ dist2(Tip, Appended) = dist2(Tip, c) =>
                           /\ dist2(env.center, Appended) <= dist2(env.center, c)
                           /\ dist2(env.center, Appended) = dist2(env.center, c) =>
                                SafePlace(Appended) <= i

(* without a step distance a walk went on to one of two points equally far
   from its tip, the one nearer to the center, leaving a farther one out *)
C25_Witness ==
  /\ Walking
  /\ settings.maxStepDistance <= 0
  /\ pc = "walk"
  /\ Len(route) >= 2
  /\ \E i, j \in DOMAIN env.safeInArea :
       LET c == env.safeInArea[i]
           f == env.safeInArea[j]
           vis == IdsOf(Prefix)
       IN /\ ValidNext(Tip, vis, c)
          /\ ValidNext(Tip, vis, f)
          /\ dist2(Tip, c) = dist2(Tip, Appended)
          /\ dist2(env.center, c) > dist2(env.center, Appended)
          /\ dist2(Tip, f) > dist2(Tip, Appended)

(* C26: with maxStepDistance <= 0, avoidDenseTravelRadius <= 0 and
   maxWaypoints >= 0 the route returned has exactly
   min(floor(maxWaypoints), stats.safeInArea) waypoints, stats.safeInArea
   being the number of input points of the area that are not in denseIds; so has
   every walk on the way *)
C26_NothingBlocks ==
  (/\ RouteCall
   /\ settings.maxStepDistance <= 0
   /\ settings.avoidDenseTravelRadius <= 0
   /\ settings.maxWaypoints >= 0) =>
    /\ Done =>
         /\ Len(result.route) = Min(Floor(settings.maxWaypoints), result.stats.safeInArea)
         /\ result.stats.safeInArea = Cardinality(SafeAreaIdx)
    /\ (pc \in {"start", "return"} /\ walk > 1) =>
         Len(route) = Min(Floor(settings.maxWaypoints), Cardinality(SafeAreaIdx))

(* with no step distance and no avoidance radius a route through all three or
   more safe points of the area was returned, fewer than the limit allows,
   past a dense point of the area *)
C26_Witness ==
  /\ Done
  /\ RouteCall
  /\ settings.maxStepDistance <= 0
  /\ settings.avoidDenseTravelRadius <= 0
  /\ Len(result.route) >= 3
  /\ Len(result.route) = Cardinality(SafeAreaIdx)
  /\ Len(result.route) < Floor(settings.maxWaypoints)
  /\ DenseAreaIdx # {}

----------------------------------------------------------------------------
(* Properties of the tuner's trials *)

(* the tuner is past its early returns *)
Tuning == TuneCall /\ tn # Null

(* the locals of the k-th cluster radius and the trial of its i-th step *)
ClusterAt(k) == ClusterLocals(tn, tnArgs.center, tn.clusterCandidates[k])
TrialAt(k, i) == trialOf(tn, ClusterAt(k), tnArgs.center, ClusterAt(k).stepCandidates[i])

(* the positions (cluster radius, step) of the trials of the k-th radius *)
TrialsOf(k) ==
  LET c == ClusterAt(k)
  IN IF c.safeCount = 0 THEN {}
     ELSE { <<k, i>> : i \in { j \in DOMAIN c.stepCandidates :
                                 \/ k < tnCluster
                                 \/ k = tnCluster /\ pc = "tn_step" /\ j < tnStep } }

(* the trials made so far, each with its position *)
Evaluated ==
  { [at |-> e, trial |-> TrialAt(e[1], e[2])] :
      e \in UNION { TrialsOf(k) : k \in { j \in DOMAIN tn.clusterCandidates : j <= tnCluster } } }

(* the trial a is strictly better than the trial b *)
TrialBeats(a, b) ==
  \/ a.len > b.len
  \/ /\ a.len = b.len
     /\ \/ a.params.maxStepDistance < b.params.maxStepDistance
        \/ /\ a.params.maxStepDistance = b.params.maxStepDistance
           /\ a.cost < b.cost

(* the position e comes before the position f *)
EarlierTrial(e, f) == e[1] < f[1] \/ (e[1] = f[1] /\ e[2] < f[2])

Ascending(list) == \A i, j \in DOMAIN list : i < j => list[i] < list[j]

(* C27: when the tuner returns, the best it kept is one of the trials it
   made; none of them has a longer route, nor an equally long route with a
   smaller step, nor equal length and step with a smaller route cost, and
   every trial made before it is strictly worse; the cluster radii and the
   steps were gone through in ascending order, and the result is the
   parameters of the best *)
C27_BestTrialKept ==
  (Tuning /\ Done) =>
    LET made == Evaluated
    IN /\ Ascending(tn.clusterCandidates)
       /\ \A k \in DOMAIN tn.clusterCandidates : Ascending(ClusterAt(k).stepCandidates)
       /\ (tnBest = Null) <=> (made = {})
       /\ tnTrials = Cardinality(made)
       /\ tnBest # Null =>
            \E e \in made :
              /\ tnBest = e.trial
              /\ \A f \in made :
                   /\ ~TrialBeats(f.trial, tnBest)
                   /\ EarlierTrial(f.at, e.at) => TrialBeats(tnBest, f.trial)
       /\ tnBest # Null => result = tnBest.params

(* the tuner returned the parameters of a trial although another had a
   shorter route, another a route as long with a larger step, another the
   same length and step at a higher cost, and a later one the same length,
   step and cost *)
C27_Witness ==
  /\ Tuning
  /\ Done
  /\ tnBest # Null
  /\ LET made == Evaluated
     IN /\ \E f \in made : f.trial.len < tnBest.len
        /\ \E f \in made :
             /\ f.trial.len = tnBest.len
             /\ f.trial.params.maxStepDistance > tnBest.params.maxStepDistance
        /\ \E f \in made :
             /\ f.trial.len = tnBest.len
             /\ f.trial.params.maxStepDistance = tnBest.params.maxStepDistance
             /\ f.trial.cost > tnBest.cost
        /\ \E f \in made :
             /\ f.trial # tnBest
             /\ f.trial.len = tnBest.len
             /\ f.trial.params.maxStepDistance = tnBest.params.maxStepDistance
             /\ f.trial.cost = tnBest.cost

----------------------------------------------------------------------------
(* Properties of the parameters the tuner returns *)

(* the hundredths of the base spacing a cluster radius may be, and those of
   the base spacing and of the cluster radius a step may be *)
ClusterFactors == {25, 35, 50, 70, 100, 140, 200}
StepBaseFactors == {80, 100, 130, 170, 220, 300}
StepClusterFactors == {130, 180, 240, 320}

(* the base spacing of the call: the spacing estimated from the points, 200
   when there is none *)
BaseSpacingOf ==
  LET raw == estimateBaseSpacing(points)
  IN IF raw > 0 THEN raw ELSE DefaultBaseSpacing

(* how many base points lie within r of p, p among them *)
CloseBy(p, r) ==
  Cardinality({ j \in DOMAIN tn.basePoints : dist2(p, tn.basePoints[j]) <= r * r })

(* the places of the base points that are not dense under the cluster radius r *)
SafeOf(r) == { j \in DOMAIN tn.basePoints : CloseBy(tn.basePoints[j], r) < DenseCount }

(* the rank the safe area radius is read at *)
TargetSafe(r) ==
  Min(Cardinality(SafeOf(r)),
      Max(6 * Floor(tnArgs.maxWaypoints), Min(400, 12 * Floor(tnArgs.maxWaypoints))))

(* the distance from the center to the k-th nearest safe point, k the target
   rank *)
SafeAreaRadius(r) ==
  LET safe == SafeOf(r)
      k == TargetSafe(r)
      kth == CHOOSE j \in safe :
               /\ Cardinality({ i \in safe : dist2(tnArgs.center, tn.basePoints[i])
                                               < dist2(tnArgs.center, tn.basePoints[j]) }) < k
               /\ Cardinality({ i \in safe : dist2(tnArgs.center, tn.basePoints[i])
                                               <= dist2(tnArgs.center, tn.basePoints[j]) }) >= k
  IN Sqrt(dist2(tnArgs.center, tn.basePoints[kth]))

(* C28: a result that is not null is the parameters of one trial that was
   made; its clusterRadius is one of 0.25, 0.35, 0.5, 0.7, 1, 1.4 and 2 times
   the base spacing, its maxStepDistance one of the step candidates and more
   than 1.05 times the clusterRadius, its avoidDenseTravelRadius the larger of
   1.15 times the clusterRadius and 0.25 times the step, its maxAreaRadius
   the distance from the center to the k-th nearest base point that is not
   dense plus 0.35 times the step, k = min(safe points, max(6 maxWaypoints,
   min(400, 12 maxWaypoints))), its dirtySupportRadius 6 times the base
   spacing, and none of the five is negative *)
C28_ReturnedParameters ==
  (Tuning /\ Done /\ result # Null) =>
    LET base == BaseSpacingOf
        made == Evaluated
    IN /\ \E e \in made : result = e.trial.params
       /\ \E f \in ClusterFactors : result.clusterRadius = Scaled(base, f)
       /\ \/ \E f \in StepBaseFactors : result.maxStepDistance = Scaled(base, f)
          \/ \E f \in StepClusterFactors :
               result.maxStepDistance = Scaled(result.clusterRadius, f)
       /\ result.maxStepDistance * 100 > result.clusterRadius * 105
       /\ result.avoidDenseTravelRadius
            = Max(Scaled(result.clusterRadius, 115), Scaled(result.maxStepDistance, 25))
       /\ SafeOf(result.clusterRadius) # {}
       /\ result.maxAreaRadius
            = SafeAreaRadius(result.clusterRadius) + Scaled(result.maxStepDistance, 35)
       /\ result.dirtySupportRadius = 6 * base
       /\ result.clusterRadius >= 0
       /\ result.maxAreaRadius >= 0
       /\ result.maxStepDistance >= 0
       /\ result.avoidDenseTravelRadius >= 0
       /\ result.dirtySupportRadius >= 0

(* the tuner returned parameters whose area radius was read at a rank below
   the number of safe points, nearer than the farthest of them *)
C28_Witness ==
  /\ Tuning
  /\ Done
  /\ result # Null
  /\ TargetSafe(result.clusterRadius) < Cardinality(SafeOf(result.clusterRadius))
  /\ SafeAreaRadius(result.clusterRadius) > 0
  /\ \E j \in SafeOf(result.clusterRadius) :
       Sqrt(dist2(tnArgs.center, tn.basePoints[j])) > SafeAreaRadius(result.clusterRadius)

----------------------------------------------------------------------------
(* Properties of the points the tuner runs its trials on *)

(* control is at the loops of line 233 *)
AtLoops == pc = "df_loops"

(* the places of the points with fewer than three points, themselves
   included, within six base spacings *)
DirtyPlaces ==
  { i \in DOMAIN points : Cardinality(WithinOf(i, 6 * BaseSpacingOf)) < 3 }

(* the points that are not dirty, in their order *)
Cleaned ==
  LET kept == DOMAIN points \ DirtyPlaces
  IN [k \in 1..Cardinality(kept) |->
        points[CHOOSE i \in kept : Cardinality({ j \in kept : j <= i }) = k]]

(* the number of points the cleaned set must still have *)
CleanedNeeded == Min(Len(points), Max(100, 5 * Floor(tnArgs.maxWaypoints)))

(* C29: when the tuner reaches its loops the dirty-support radius is six base
   spacings, the dirty ids are those of the points whose neighbour count
   within that radius, the point itself counted, is below 3, and the base
   points are the points without the dirty ones if and only if at least
   min(total, max(100, 5 maxWaypoints)) of them are left, the points as given
   otherwise; with at most 100 points the cleaned set is used only when no
   point is dirty, and the base points are never empty.  On the small inputs
   they are the base points the trials of the tuner run on *)
C29_DirtyPointsDropped ==
  AtLoops =>
    /\ dfLocals.dirtySupportRadius = 6 * BaseSpacingOf
    /\ dfDirtyIds = { points[i].id : i \in DirtyPlaces }
    /\ dfBasePoints = IF Len(Cleaned) >= CleanedNeeded THEN Cleaned ELSE points
    /\ (dfBasePoints = Cleaned) <=> (Len(Cleaned) >= CleanedNeeded \/ DirtyPlaces = {})
    /\ (Len(points) <= 100 /\ dfBasePoints = Cleaned) => DirtyPlaces = {}
    /\ dfBasePoints # <<>>
    /\ Len(points) <= MaxStagePoints =>
         LET t == TunerLocals(points, tnArgs.center, tnArgs.maxWaypoints)
         IN /\ t.basePoints = dfBasePoints
            /\ t.baseSpacing = dfLocals.baseSpacing
            /\ t.dirtySupportRadius = dfLocals.dirtySupportRadius

(* the tuner reached its loops with the dirty points dropped: some point had
   two points within the radius, itself counted, and is gone, and a point
   with exactly three is kept *)
C29_Witness ==
  /\ AtLoops
  /\ dfBasePoints = Cleaned
  /\ Len(dfBasePoints) < Len(points)
  /\ \E i \in DirtyPlaces : Cardinality(WithinOf(i, 6 * BaseSpacingOf)) = 2
  /\ \E i \in DOMAIN points :
       /\ Cardinality(WithinOf(i, 6 * BaseSpacingOf)) = 3
       /\ \E k \in DOMAIN dfBasePoints : dfBasePoints[k] = points[i]

----------------------------------------------------------------------------
(* Properties of the tile script *)

(* runWithConcurrency is running, and it has resolved for the level before *)
Running == pc \in {"rw_spawn", "rw_await"}
Resolved == pc \in {"bm_level", "done"} /\ tlZ > 0

(* the level the tasks at hand belong to *)
LevelAtHand == IF Running THEN tlZ ELSE tlZ - 1

(* the tiles of a level: those whose left and top lie within the image *)
TilesAt(zoom) ==
  { t \in (0..(tlMap.width \div TILE_SIZE)) \X (0..(tlMap.height \div TILE_SIZE)) :
      /\ t[1] * TILE_SIZE < levelSide(tlMap.width, zoom, tlMaxZoom)
      /\ t[2] * TILE_SIZE < levelSide(tlMap.height, zoom, tlMaxZoom) }

(* the tiles of the levels below a level *)
TilesBelow(zoom) ==
  UNION { { <<lower, t>> : t \in TilesAt(lower) } : lower \in 0..(zoom - 1) }

(* the workers whose task has been called and has not ended *)
InFlight == { w \in DOMAIN tlWorkers : tlWorkers[w].at \in {"io", "written"} }

(* the tasks that have ended *)
Completed ==
  { tlStarted[i] : i \in DOMAIN tlStarted } \ { tlWorkers[w].task : w \in InFlight }

(* C30: while runWithConcurrency runs and after it has resolved, each task of
   the level is either still in the list or has been called, once in all; at
   most min(limit, tasks) tasks are in flight; levelDone is the number of
   tasks ended and generatedTiles that number plus the tiles of the levels
   before.  When it has resolved the list is empty, every task of the level
   has been called once and has ended, and levelDone is the level's tile
   count; when buildMap returns generatedTiles equals totalTiles, the number
   of tiles of all levels *)
C30_EveryTileOnce ==
  /\ (Running \/ Resolved) =>
       /\ \A t \in TilesAt(LevelAtHand) : TimesIn(tlTasks, t) + TimesIn(tlStarted, t) = 1
       /\ Len(tlTasks) + Len(tlStarted) = Cardinality(TilesAt(LevelAtHand))
       /\ tlLevelTotal = Cardinality(TilesAt(LevelAtHand))
       /\ Cardinality(InFlight) <= Min(tlConcurrency, tlLevelTotal)
       /\ tlLevelDone = Cardinality(Completed)
       /\ tlGeneratedTiles = Cardinality(TilesBelow(LevelAtHand)) + tlLevelDone
  /\ Resolved =>
       /\ tlTasks = <<>>
       /\ InFlight = {}
       /\ Completed = TilesAt(LevelAtHand)
       /\ tlLevelDone = tlLevelTotal
  /\ (pc = "done" /\ tlMap # Null) =>
       /\ tlTotalTiles = Cardinality(TilesBelow(tlMaxZoom + 1))
       /\ tlGeneratedTiles = tlTotalTiles

(* buildMap returned after a level of more tiles than workers *)
C30_Witness ==
  /\ pc = "done"
  /\ tlMap # Null
  /\ tlLevelTotal > tlConcurrency
  /\ tlGeneratedTiles > tlLevelTotal
  /\ tlGeneratedTiles = tlTotalTiles

====
